---- MODULE Spec2Model ----
(***************************************************************************)
(* EduMentor AI (raunak-kesarwani/Hustlers): the Content Generator         *)
(* (modules/ai_generator.py), the Quiz Source Resolver                     *)
(* (modules/quiz_fetcher.py), the Study Material Resolver                  *)
(* (modules/study_material_fetcher.py) and the Flask application (app.py). *)
(*                                                                         *)
(* Python values are records tagged by the field py ("str", "int", "list", *)
(* "dict", "None"); a dict carries one field per key it holds, so that     *)
(* `k in d` is  k \in DOMAIN d.  A text is a sequence of word tokens.      *)
(***************************************************************************)
EXTENDS Integers, Sequences, FiniteSets, TLC

VARIABLES
    api_available,  \* AIGenerator.api_available (model is not None with it)
    ai_configured,  \* the fetchers' self.ai_generator is not None
    pc,             \* "idle" before the operation of `call` ran, "done" after
    call,           \* the operation under way and its arguments
    ret,            \* what the operation returned, or that it raised
    log,            \* the outgoing calls the operation made, in order
    users,          \* the user table, a row's id being its position
    session,        \* the browser's signed session cookie
    contents,       \* the generated_content table
    progress,       \* the progress table
    resp            \* the last request and the response to it

appVars == <<users, session, contents, progress, resp>>
vars == <<api_available, ai_configured, pc, call, ret, log, users, session, contents, progress, resp>>

\* ------------------------------------------------------------------ bounds
MaxN == 2       \* largest requested number of questions / cards
MaxAI == 2      \* longest array in a model reply
MaxUsers == 2   \* most rows of the user table, the default admin included
MaxRows == 1    \* most rows of the generated_content and progress tables together
MaxStored == 2  \* the same, where the store itself is under study
MaxExt == 2     \* most questions in one answer of the trivia service
NumIncorrect == 1   \* incorrect answers of one question of the trivia service

\* --------------------------------------------------------- Python values
PyNone == [py |-> "None"]
PyInt(n) == [py |-> "int", n |-> n]
PyChars(cs) == [py |-> "str", chars |-> cs]
PyList(items) == [py |-> "list", items |-> items]
EmptyDict == [py |-> "dict"]

Ok(v) == [st |-> "ok", v |-> v]
Raise(e) == [st |-> "raise", exc |-> e]
NoRet == [st |-> "none"]

Keys(d) == DOMAIN d \ {"py"}

\* bool(v): None, 0, "", [] and {} are falsy
Truthy(v) ==
    CASE v.py = "None" -> FALSE
      [] v.py = "int" -> v.n # 0
      [] v.py = "str" -> ("chars" \in DOMAIN v) => v.chars # <<>>
      [] v.py = "list" -> v.items # <<>>
      [] v.py = "dict" -> Keys(v) # {}
      [] OTHER -> TRUE

\* len(v) is defined for str, list and dict and raises TypeError otherwise
HasLen(v) == v.py \in {"str", "list", "dict"}

PyLen(v) ==
    CASE v.py = "list" -> Len(v.items)
      [] v.py = "str" -> Len(v.chars)
      [] v.py = "dict" -> Cardinality(Keys(v))
      [] OTHER -> 0

SeqsUpTo(S, n) == UNION {[1..k -> S] : k \in 0..n}

Take(s, n) == SubSeq(s, 1, IF n < Len(s) THEN n ELSE Len(s))

\* ------------------------------------------------- the stored state
\* werkzeug's generate_password_hash / check_password_hash
Hash(password) == <<"pbkdf2", password>>
CheckPassword(password_hash, password) == password_hash = Hash(password)

\* the row create_tables inserts
DefaultAdmin ==
    [username |-> "admin", email |-> "admin@edumentor.ai",
     password_hash |-> Hash("admin123"), role |-> "admin"]

NoSession == [py |-> "dict"]
NoResp == [endpoint |-> "none"]

\* the application as create_tables leaves it, before any request
AppAtRest ==
    /\ users = <<DefaultAdmin>>
    /\ session = NoSession
    /\ contents = <<>>
    /\ progress = <<>>
    /\ resp = NoResp

\* ------------------------------------------------------------------ texts
\* str.lower() on a word token
Lower(tok) ==
    CASE tok = "Quiz" -> "quiz"
      [] tok = "Flashcard" -> "flashcard"
      [] tok = "SCIENCE" -> "science"
      [] tok = "History" -> "history"
      [] tok = "Particle" -> "particle"
      [] OTHER -> tok

\* `word in tok` for the marker words the code looks for
IsSubstr(word, tok) ==
    \/ tok = word
    \/ word = "flashcard" /\ tok = "flashcards"
    \/ word = "quiz" /\ tok = "quizzes"
    \/ word = "art" /\ tok = "particle"

\* `word in text.lower()`
Contains(text, word) == \E i \in DOMAIN text : IsSubstr(word, Lower(text[i]))

Topics == {<<"algebra">>, <<"Quiz", "night">>, <<"flashcard", "games">>}
Difficulties == {"medium", "Expert"}
Languages == {"en", "hi"}

\* the text of a model reply: what json.loads makes of it (`body`, notjson
\* when it is no JSON document) and the markdown fence around it: "none",
\* "clean" (the text starts with the ``` line) or "leading" (prose first)
ReplyText(fence, body) == [py |-> "str", fence |-> fence, body |-> body]
NotJson == [py |-> "notjson"]
Fences == {"none", "clean", "leading"}

\* ---------------------------------------------------- AIGenerator: mock
MockQuestion ==
    [py |-> "dict", question |-> <<"What", "is", "the", "main", "topic?">>,
     options |-> <<<<"Option", "A">>, <<"Option", "B">>, <<"Option", "C">>, <<"Option", "D">>>>,
     correct |-> 0, explanation |-> <<"This", "is", "a", "sample", "explanation.">>]

MockCard == [py |-> "dict", front |-> <<"Question?">>, back |-> <<"Answer">>]

SampleText == ReplyText("none", NotJson)

\* a mock response that is none of the three of _get_mock_response
Unanswered(prompt) == ReplyText("none", EmptyDict)

GetMockResponse(prompt) ==
    IF Contains(prompt, "quiz")
    THEN ReplyText("none", [py |-> "dict", questions |-> PyList(<<MockQuestion>>)])
    ELSE IF Contains(prompt, "flashcard")
    THEN ReplyText("none", [py |-> "dict", cards |-> PyList(<<MockCard>>)])
    ELSE SampleText

\* ------------------------------------------- what the upstream model says
ModelQuestions ==
    {[py |-> "dict", question |-> <<"generated">>,
      options |-> <<<<"A">>, <<"B">>, <<"C">>, <<"D">>>>,
      correct |-> c, explanation |-> <<"because">>] : c \in {0, 4}}

ModelCards == {[py |-> "dict", front |-> <<"term">>, back |-> <<"meaning">>]}

\* JSON values that are not arrays
Scalars ==
    {PyNone, PyInt(0), PyInt(5), PyChars(<<>>), PyChars(<<"a", "b", "c">>),
     EmptyDict, [py |-> "dict", first |-> PyNone]}

QuestionVals == Scalars \cup {PyList(s) : s \in SeqsUpTo(ModelQuestions, MaxAI)}
CardVals == Scalars \cup {PyList(s) : s \in SeqsUpTo(ModelCards, MaxAI)}

ReplyBodies ==
    {NotJson, PyList(<<>>), PyInt(5), EmptyDict}
    \cup {[py |-> "dict", questions |-> v] : v \in QuestionVals}
    \cup {[py |-> "dict", cards |-> v] : v \in CardVals}

Replies == {ReplyText(f, b) : f \in Fences, b \in ReplyBodies}

\* model.generate_content either raises (transport, API, blocked reply) or
\* gives a text; NoUpstream stands for a call that was never made
UpstreamOutcomes == {[kind |-> "error"]} \cup {[kind |-> "text", text |-> r] : r \in Replies}
NoUpstream == [kind |-> "unused"]

Outcomes == IF api_available THEN UpstreamOutcomes ELSE {NoUpstream}

\* ------------------------------------------------ AIGenerator._call_ai
CallAi(prompt, outcome) ==
    IF ~api_available THEN GetMockResponse(prompt)
    ELSE IF outcome.kind = "text" THEN outcome.text
    ELSE GetMockResponse(prompt)

\* the log entry of one _call_ai: `upstream` tells whether the model was called
AiEvent(prompt, max_tokens, outcome) ==
    [ev |-> "call_ai", upstream |-> api_available, max_tokens |-> max_tokens,
     text |-> CallAi(prompt, outcome)]

\* json.loads(text)
JsonLoads(text) ==
    IF text.fence = "none" /\ text.body.py # "notjson"
    THEN Ok(text.body)
    ELSE Raise("JSONDecodeError")

\* ------------------------------------------------- AIGenerator.generate
TemplatedTypes == {"notes", "summary", "diagram_description", "video_script"}
ContentTypes == TemplatedTypes \cup {"flashcards", "lesson_plan"}

TemplatePrompt(topic, content_type, difficulty) ==
    CASE content_type = "summary" ->
            <<"Create", "a", "concise", "summary", "of">> \o topic \o <<"for", difficulty, "level.">>
      [] content_type = "diagram_description" ->
            <<"Describe", "a", "visual", "diagram", "for">> \o topic \o <<"suitable", "for", difficulty, "level.">>
      [] content_type = "video_script" ->
            <<"Create", "an", "engaging", "video", "script", "for", "teaching">> \o topic
                \o <<"to", difficulty, "level", "students.">>
      [] OTHER ->
            <<"Create", "comprehensive", "study", "notes", "on">> \o topic
                \o <<"suitable", "for", difficulty, "level", "students.">>

GeneratePrompt(topic, content_type, difficulty, language) ==
    TemplatePrompt(topic, content_type, difficulty)
        \o (IF language # "en" THEN <<"Translate", "the", "content", "to", language>> ELSE <<>>)

Generate(topic, content_type, difficulty, language, outcome) ==
    LET result == CallAi(GeneratePrompt(topic, content_type, difficulty, language), outcome) IN
    CASE content_type = "notes" ->
            Ok([py |-> "dict", type |-> "notes", topic |-> topic, content |-> result, difficulty |-> difficulty])
      [] content_type = "summary" ->
            Ok([py |-> "dict", type |-> "summary", topic |-> topic, content |-> result, difficulty |-> difficulty])
      [] content_type = "diagram_description" ->
            Ok([py |-> "dict", type |-> "diagram", topic |-> topic, description |-> result, difficulty |-> difficulty])
      [] content_type = "video_script" ->
            Ok([py |-> "dict", type |-> "video_script", topic |-> topic, script |-> result, difficulty |-> difficulty])
      [] OTHER ->
            Ok([py |-> "dict", type |-> content_type, content |-> result])

\* -------------------------------------------- AIGenerator.generate_quiz
QuizPrompt(topic, num_questions, difficulty) ==
    <<"You", "are", "creating", "a", "quiz", "about">> \o topic
        \o <<"Create", "exactly", ToString(num_questions), "questions", difficulty>>

\* the markdown clean-up of generate_quiz: only a text that starts with the
\* fence loses it
StripFence(text) == IF text.fence = "clean" THEN [text EXCEPT !.fence = "none"] ELSE text

QuizFallback(topic) ==
    [py |-> "dict",
     questions |-> PyList(<<
        [py |-> "dict",
         question |-> <<"What", "is", "a", "key", "concept", "related", "to">> \o topic,
         options |-> << <<"Option", "A", "related", "to">> \o topic,
                        <<"Option", "B", "related", "to">> \o topic,
                        <<"Option", "C", "related", "to">> \o topic,
                        <<"Option", "D", "related", "to">> \o topic >>,
         correct |-> 0,
         explanation |-> <<"This", "is", "a", "sample", "question", "about">> \o topic] >>)]

GenerateQuiz(topic, num_questions, difficulty, outcome) ==
    LET result == CallAi(QuizPrompt(topic, num_questions, difficulty), outcome)
        parsed == JsonLoads(StripFence(result))
    IN  IF parsed.st = "raise" THEN Ok(QuizFallback(topic))
        ELSE LET quiz_data == parsed.v IN
             IF quiz_data.py # "dict" \/ "questions" \notin DOMAIN quiz_data
             THEN Ok(QuizFallback(topic))
             ELSE IF ~Truthy(quiz_data.questions) THEN Ok(QuizFallback(topic))
             ELSE IF ~HasLen(quiz_data.questions) THEN Raise("TypeError")
             ELSE IF PyLen(quiz_data.questions) = 0 THEN Ok(QuizFallback(topic))
             ELSE Ok(quiz_data)

\* -------------------------------------- AIGenerator.generate_flashcards
FlashcardsPrompt(topic, num_cards) ==
    <<"Create", ToString(num_cards), "flashcards", "on">> \o topic \o <<"Format", "as", "JSON:">>

FlashcardsFallback(topic) ==
    [py |-> "dict",
     cards |-> PyList(<< [py |-> "dict", front |-> <<"What", "is">> \o topic,
                          back |-> <<"Definition", "of">> \o topic] >>)]

GenerateFlashcards(topic, num_cards, outcome) ==
    LET result == CallAi(FlashcardsPrompt(topic, num_cards), outcome)
        parsed == JsonLoads(result)
    IN  IF parsed.st = "raise" THEN Ok(FlashcardsFallback(topic)) ELSE Ok(parsed.v)

\* ------------------- AIGenerator.solve_doubt / lesson plan / homework
DoubtPrompt(question, context) ==
    <<"A", "student", "asks:">> \o question
        \o (IF context # <<>> THEN <<"Context:">> \o context ELSE <<>>)
        \o <<"Provide", "a", "clear,", "educational", "explanation">>

SolveDoubt(question, context, outcome) ==
    Ok([py |-> "dict", question |-> question,
        answer |-> CallAi(DoubtPrompt(question, context), outcome), context |-> context])

LessonPlanPrompt(topic, duration, grade_level) ==
    <<"Create", "a", "detailed", "lesson", "plan", "for", "teaching">> \o topic
        \o <<"to", grade_level, "Duration:", ToString(duration), "Homework", "suggestions">>

GenerateLessonPlan(topic, duration, grade_level, outcome) ==
    Ok([py |-> "dict", topic |-> topic, duration |-> duration, grade_level |-> grade_level,
        plan |-> CallAi(LessonPlanPrompt(topic, duration, grade_level), outcome)])

HomeworkPrompt(topic, difficulty) ==
    <<"Create", "homework", "assignments", "on">> \o topic
        \o <<"for", difficulty, "level", "students.", "Multiple", "question", "types">>

GenerateHomework(topic, difficulty, outcome) ==
    Ok([py |-> "dict", topic |-> topic, difficulty |-> difficulty,
        homework |-> CallAi(HomeworkPrompt(topic, difficulty), outcome)])

\* ============================================== the Content Generator
GenCalls ==
    {[op |-> "generate", topic |-> t, content_type |-> c, difficulty |-> d, language |-> l] :
        t \in Topics, c \in ContentTypes, d \in Difficulties, l \in Languages}
    \cup {[op |-> "generate_quiz", topic |-> t, num_questions |-> n, difficulty |-> d] :
        t \in Topics, n \in 1..MaxN, d \in Difficulties}
    \cup {[op |-> "generate_flashcards", topic |-> t, num_cards |-> n] : t \in Topics, n \in 1..MaxN}
    \cup {[op |-> "solve_doubt", question |-> t, context |-> c] : t \in Topics, c \in {<<>>, <<"Quiz">>}}
    \cup {[op |-> "generate_lesson_plan", topic |-> t, duration |-> 60, grade_level |-> "middle"] : t \in Topics}
    \cup {[op |-> "generate_homework", topic |-> t, difficulty |-> d] : t \in Topics, d \in Difficulties}

\* AIGenerator.__init__: with a key the model is configured, without it the
\* generator is in mock mode; the application hands it to both fetchers
InitGen ==
    /\ api_available \in BOOLEAN
    /\ ai_configured = TRUE
    /\ pc = "idle"
    /\ call \in GenCalls
    /\ ret = NoRet
    /\ log = <<>>
    /\ AppAtRest

DoGenerate ==
    /\ pc = "idle" /\ call.op = "generate"
    /\ \E o \in Outcomes :
        /\ ret' = Generate(call.topic, call.content_type, call.difficulty, call.language, o)
        /\ log' = <<AiEvent(GeneratePrompt(call.topic, call.content_type, call.difficulty, call.language), 2000, o)>>
    /\ pc' = "done"
    /\ UNCHANGED <<api_available, ai_configured, call>>
    /\ UNCHANGED appVars

DoGenerateQuiz ==
    /\ pc = "idle" /\ call.op = "generate_quiz"
    /\ \E o \in Outcomes :
        /\ ret' = GenerateQuiz(call.topic, call.num_questions, call.difficulty, o)
        /\ log' = <<AiEvent(QuizPrompt(call.topic, call.num_questions, call.difficulty), 4000, o)>>
    /\ pc' = "done"
    /\ UNCHANGED <<api_available, ai_configured, call>>
    /\ UNCHANGED appVars

DoGenerateFlashcards ==
    /\ pc = "idle" /\ call.op = "generate_flashcards"
    /\ \E o \in Outcomes :
        /\ ret' = GenerateFlashcards(call.topic, call.num_cards, o)
        /\ log' = <<AiEvent(FlashcardsPrompt(call.topic, call.num_cards), 2000, o)>>
    /\ pc' = "done"
    /\ UNCHANGED <<api_available, ai_configured, call>>
    /\ UNCHANGED appVars

DoSolveDoubt ==
    /\ pc = "idle" /\ call.op = "solve_doubt"
    /\ \E o \in Outcomes :
        /\ ret' = SolveDoubt(call.question, call.context, o)
        /\ log' = <<AiEvent(DoubtPrompt(call.question, call.context), 2000, o)>>
    /\ pc' = "done"
    /\ UNCHANGED <<api_available, ai_configured, call>>
    /\ UNCHANGED appVars

DoGenerateLessonPlan ==
    /\ pc = "idle" /\ call.op = "generate_lesson_plan"
    /\ \E o \in Outcomes :
        /\ ret' = GenerateLessonPlan(call.topic, call.duration, call.grade_level, o)
        /\ log' = <<AiEvent(LessonPlanPrompt(call.topic, call.duration, call.grade_level), 2500, o)>>
    /\ pc' = "done"
    /\ UNCHANGED <<api_available, ai_configured, call>>
    /\ UNCHANGED appVars

DoGenerateHomework ==
    /\ pc = "idle" /\ call.op = "generate_homework"
    /\ \E o \in Outcomes :
        /\ ret' = GenerateHomework(call.topic, call.difficulty, o)
        /\ log' = <<AiEvent(HomeworkPrompt(call.topic, call.difficulty), 2000, o)>>
    /\ pc' = "done"
    /\ UNCHANGED <<api_available, ai_configured, call>>
    /\ UNCHANGED appVars

NextGen ==
    \/ DoGenerate
    \/ DoGenerateQuiz
    \/ DoGenerateFlashcards
    \/ DoSolveDoubt
    \/ DoGenerateLessonPlan
    \/ DoGenerateHomework

SpecGen == InitGen /\ [][NextGen]_vars

\* ================================================ Quiz Source Resolver
\* html.unescape on a token
UnescapeTok(tok) ==
    CASE tok = "&amp;" -> "&"
      [] tok = "&quot;" -> "\""
      [] tok = "&#039;" -> "'"
      [] OTHER -> tok

\* QuizFetcher._decode_html_entities
DecodeHtmlEntities(text) == [i \in DOMAIN text |-> UnescapeTok(text[i])]

\* QuizFetcher.category_map, in insertion order; CategoryNone is the None of
\* 'entertainment'
CategoryNone == 0
CategoryGeneral == 9
CategoryMap ==
    << <<"science", 17>>, <<"mathematics", 19>>, <<"computers", 18>>, <<"history", 23>>,
       <<"geography", 22>>, <<"sports", 21>>, <<"animals", 27>>, <<"mythology", 20>>,
       <<"politics", 24>>, <<"art", 25>>, <<"celebrities", 26>>, <<"vehicles", 28>>,
       <<"entertainment", CategoryNone>>, <<"general", CategoryGeneral>> >>

\* the first keyword of the table that occurs, with or without a category
MapAnyKeyword(topic) ==
    LET hits == {i \in DOMAIN CategoryMap : Contains(topic, CategoryMap[i][1])}
    IN  IF hits = {} THEN CategoryGeneral
        ELSE CategoryMap[CHOOSE i \in hits : \A j \in hits : i <= j][2]

\* QuizFetcher._map_topic_to_category
MapTopicToCategory(topic) ==
    LET hits == {i \in DOMAIN CategoryMap :
                    Contains(topic, CategoryMap[i][1]) /\ CategoryMap[i][2] # CategoryNone}
    IN  IF hits = {} THEN CategoryGeneral
        ELSE CategoryMap[CHOOSE i \in hits : \A j \in hits : i <= j][2]

\* QuizFetcher._map_difficulty
MapDifficulty(difficulty) ==
    IF Lower(difficulty) \in {"easy", "medium", "hard"} THEN Lower(difficulty) ELSE "medium"

ApiLimit == 50

Perms(n) == {p \in [1..n -> 1..n] : \A i, j \in 1..n : i # j => p[i] # p[j]}
AllPerms == Perms(NumIncorrect + 1)

\* random.shuffle(list): the list in the order the permutation gives
Shuffle(list, perm) == [i \in DOMAIN list |-> list[perm[i]]]

\* list.index(x), zero-based: the first position holding x
Index(list, x) == (CHOOSE i \in DOMAIN list : list[i] = x /\ \A j \in 1..(i - 1) : list[j] # x) - 1

\* QuizFetcher._format_opentdb_question
FormatOpentdbQuestion(q, perm) ==
    LET question == DecodeHtmlEntities(q.question)
        correct_answer == DecodeHtmlEntities(q.correct_answer)
        all_answers == [i \in DOMAIN q.incorrect_answers |-> DecodeHtmlEntities(q.incorrect_answers[i])]
                          \o <<correct_answer>>
        shuffled == Shuffle(all_answers, perm)
    IN  [py |-> "dict", question |-> question, options |-> shuffled,
         correct |-> Index(shuffled, correct_answer),
         explanation |-> <<"The", "correct", "answer", "is">> \o correct_answer]

\* what the trivia service sends: the i-th question of an answer, either with
\* four different answers or with an incorrect answer that decodes to the
\* text of the correct one
RawQuestion(i, twin) ==
    [question |-> <<"q", ToString(i), "&quot;">>,
     correct_answer |-> <<"R", "&amp;", "D">>,
     incorrect_answers |->
        [j \in 1..NumIncorrect |->
            IF j = 1 /\ twin THEN <<"R", "&", "D">> ELSE <<"wrong", ToString(j)>>]]

RawResults == UNION {[1..k -> BOOLEAN] : k \in 0..MaxExt}

\* requests.get(...): a transport or HTTP error, or a JSON answer; `whole`
\* is false when a question of the answer lacks a field
OpentdbOutcomes ==
    {[kind |-> "error"]}
    \cup {[kind |-> "ok", response_code |-> c, whole |-> TRUE,
           results |-> [i \in DOMAIN tw |-> RawQuestion(i, tw[i])]] :
            c \in {0, 1}, tw \in RawResults}
    \cup {[kind |-> "ok", response_code |-> 0, whole |-> FALSE,
           results |-> <<RawQuestion(1, FALSE)>>]}

ShufflesFor(outcome) ==
    IF outcome.kind = "ok" /\ outcome.response_code = 0 /\ outcome.whole
    THEN [DOMAIN outcome.results -> AllPerms]
    ELSE {<<>>}

\* QuizFetcher.fetch_from_opentdb
FetchFromOpentdb(topic, num_questions, difficulty, outcome, perms) ==
    IF outcome.kind = "error" THEN PyNone
    ELSE IF outcome.response_code = 0 /\ outcome.results # <<>>
         THEN IF ~outcome.whole THEN PyNone
              ELSE [py |-> "dict",
                    questions |-> PyList([i \in DOMAIN outcome.results |->
                                            FormatOpentdbQuestion(outcome.results[i], perms[i])])]
         ELSE PyNone

OpentdbEvent(topic, num_questions, difficulty, outcome, perms) ==
    [ev |-> "opentdb",
     amount |-> IF num_questions < ApiLimit THEN num_questions ELSE ApiLimit,
     category |-> MapTopicToCategory(topic),
     difficulty |-> MapDifficulty(difficulty),
     results |-> IF outcome.kind = "ok" THEN outcome.results ELSE <<>>,
     got |-> FetchFromOpentdb(topic, num_questions, difficulty, outcome, perms)]

EmptyPlaceholder(topic) == [py |-> "dict", questions |-> PyList(<<>>)]

StaticPlaceholder(topic) ==
    [py |-> "dict",
     questions |-> PyList(<<
        [py |-> "dict",
         question |-> <<"Sample", "question", "about">> \o topic,
         options |-> <<<<"Option", "A">>, <<"Option", "B">>, <<"Option", "C">>, <<"Option", "D">>>>,
         correct |-> 0,
         explanation |-> <<"This", "is", "a", "placeholder", "question.">>] >>)]

\* len(quiz_data.get('questions', [])) of a truthy quiz_data, 0 for None
ExternalCount(quiz_data) == IF Truthy(quiz_data) THEN PyLen(quiz_data.questions) ELSE 0

\* whether fetch_quiz reaches one of its two generate_quiz calls
CallsGenerator(quiz_data, num_questions) ==
    /\ ai_configured
    /\ ExternalCount(quiz_data) < num_questions

\* value[:n] of a list or str; a dict cannot be sliced
Slice(v, n) ==
    CASE v.py = "list" -> Ok(Take(v.items, n))
      [] v.py = "str" -> Ok([i \in 1..Len(Take(v.chars, n)) |-> PyChars(<<v.chars[i]>>)])
      [] OTHER -> Raise("TypeError")

Untrimmed(quiz_data, num_questions) == quiz_data

\* fetch_quiz, enough external questions: trim to the requested number
TrimToRequested(quiz_data, num_questions) ==
    [quiz_data EXCEPT !.questions = PyList(Take(quiz_data.questions.items, num_questions))]

\* the number fetch_quiz asks the generator for when `have` external
\* questions came in
Shortfall(num_questions, have) == num_questions - have

\* fetch_quiz, some external questions: top up from the generator
Supplement(quiz_data, ai_quiz, remaining) ==
    IF ai_quiz.st = "raise" THEN ai_quiz
    ELSE IF Truthy(ai_quiz.v) /\ "questions" \in DOMAIN ai_quiz.v /\ Truthy(ai_quiz.v.questions)
    THEN LET more == Slice(ai_quiz.v.questions, remaining) IN
         IF more.st = "raise" THEN more
         ELSE Ok([quiz_data EXCEPT !.questions = PyList(quiz_data.questions.items \o more.v)])
    ELSE Ok(quiz_data)

\* QuizFetcher.fetch_quiz
FetchQuiz(topic, num_questions, difficulty, outcome, perms, ai) ==
    LET quiz_data == FetchFromOpentdb(topic, num_questions, difficulty, outcome, perms)
        have == ExternalCount(quiz_data)
        remaining == Shortfall(num_questions, have)
    IN  IF Truthy(quiz_data) /\ have >= num_questions
        THEN Ok(TrimToRequested(quiz_data, num_questions))
        ELSE IF Truthy(quiz_data) /\ have > 0
        THEN IF ai_configured /\ remaining > 0
             THEN Supplement(quiz_data, GenerateQuiz(topic, remaining, difficulty, ai), remaining)
             ELSE Ok(quiz_data)
        ELSE IF ai_configured
        THEN GenerateQuiz(topic, num_questions, difficulty, ai)
        ELSE Ok(StaticPlaceholder(topic))

FetchQuizLog(topic, num_questions, difficulty, outcome, perms, ai) ==
    LET quiz_data == FetchFromOpentdb(topic, num_questions, difficulty, outcome, perms)
        asked == Shortfall(num_questions, ExternalCount(quiz_data))
    IN  <<OpentdbEvent(topic, num_questions, difficulty, outcome, perms)>>
        \o (IF CallsGenerator(quiz_data, num_questions)
            THEN <<[ev |-> "generate_quiz", num_questions |-> asked],
                   AiEvent(QuizPrompt(topic, asked, difficulty), 4000, ai)>>
            ELSE <<>>)

QuizArgs == {<<<<"algebra">>, "Expert">>, <<<<"Quiz", "night">>, "medium">>}

\* the words the topics of _map_topic_to_category are made of
CategoryWords == {"algebra", "SCIENCE", "History", "Particle", "entertainment", "general", "vehicles"}

QuizCalls ==
    {[op |-> "fetch_quiz", topic |-> a[1], num_questions |-> n, difficulty |-> a[2]] :
        a \in QuizArgs, n \in 1..MaxN}
    \cup {[op |-> "_map_topic_to_category", topic |-> t] :
            t \in {<<>>} \cup {<<w>> : w \in CategoryWords} \cup (CategoryWords \X CategoryWords)}

\* QuizFetcher.__init__: the generator is optional
InitQuiz ==
    /\ api_available \in BOOLEAN
    /\ ai_configured \in BOOLEAN
    /\ pc = "idle"
    /\ call \in QuizCalls
    /\ ret = NoRet
    /\ log = <<>>
    /\ AppAtRest

DoFetchQuiz ==
    /\ pc = "idle" /\ call.op = "fetch_quiz"
    /\ \E outcome \in OpentdbOutcomes : \E perms \in ShufflesFor(outcome) :
        LET quiz_data == FetchFromOpentdb(call.topic, call.num_questions, call.difficulty, outcome, perms) IN
        \E ai \in (IF CallsGenerator(quiz_data, call.num_questions) THEN Outcomes ELSE {NoUpstream}) :
            /\ ret' = FetchQuiz(call.topic, call.num_questions, call.difficulty, outcome, perms, ai)
            /\ log' = FetchQuizLog(call.topic, call.num_questions, call.difficulty, outcome, perms, ai)
    /\ pc' = "done"
    /\ UNCHANGED <<api_available, ai_configured, call>>
    /\ UNCHANGED appVars

DoMapTopicToCategory ==
    /\ pc = "idle" /\ call.op = "_map_topic_to_category"
    /\ ret' = Ok(PyInt(MapTopicToCategory(call.topic)))
    /\ log' = <<>>
    /\ pc' = "done"
    /\ UNCHANGED <<api_available, ai_configured, call>>
    /\ UNCHANGED appVars

NextQuiz ==
    \/ DoFetchQuiz
    \/ DoMapTopicToCategory

SpecQuiz == InitQuiz /\ [][NextQuiz]_vars

\* ============================================= Study Material Resolver
\* a fetched text: `chars` characters of prose and `markup` characters of
\* tags, entities and outer blanks
Extract(chars, markup) == [chars |-> chars, markup |-> markup]
TextLen(t) == t.chars + t.markup

\* StudyMaterialFetcher._clean_html
CleanHtml(t) == [t EXCEPT !.markup = 0]

SearchBelow == 200
MinExtract == 100

RawExtracts == {Extract(0, 0), Extract(60, 50), Extract(100, 0), Extract(101, 20), Extract(250, 0)}

\* the answer of the search endpoint: an error, a status other than 200, no
\* pages, a page without a snippet, or a page with one
SearchOutcomes ==
    {[kind |-> "error"], [kind |-> "status"], [kind |-> "nopages"], [kind |-> "bare"]}
    \cup {[kind |-> "page", snippet |-> x] : x \in {Extract(0, 0), Extract(60, 50), Extract(250, 0)}}

\* the answer of the summary endpoint
WikiOutcomes ==
    {[kind |-> "error"], [kind |-> "status"]}
    \cup {[kind |-> "ok", extract |-> Extract(250, 0), url |-> u, search |-> [kind |-> "unused"]] :
            u \in {"", "https://en.wikipedia.org/wiki/Page"}}
    \cup {[kind |-> "ok", extract |-> x, url |-> "https://en.wikipedia.org/wiki/Page", search |-> so] :
            x \in RawExtracts \ {Extract(250, 0)}, so \in SearchOutcomes}

\* StudyMaterialFetcher.fetch_from_wikipedia
FetchFromWikipedia(query, outcome) ==
    IF outcome.kind # "ok" THEN PyNone
    ELSE LET first == CleanHtml(outcome.extract)
             so == outcome.search
             searched == TextLen(first) < SearchBelow
             replaced == searched /\ so.kind \in {"bare", "page"}
             extract == IF searched /\ so.kind = "page" THEN CleanHtml(so.snippet) ELSE first
         IN  IF searched /\ so.kind = "error" THEN PyNone
             ELSE IF TextLen(extract) = 0 THEN PyNone
             ELSE [py |-> "dict", title |-> IF replaced THEN <<"found">> ELSE query,
                   extract |-> extract, url |-> outcome.url, source |-> "Wikipedia"]

WikiResults(query) == {FetchFromWikipedia(query, o) : o \in WikiOutcomes}
NotAsked == [py |-> "unasked"]

\* the alternative queries in another order
SwappedQueries(topic) ==
    <<topic \o <<"definition">>, topic \o <<"explanation">>, <<"what", "is">> \o topic>>

AlternativeQueries(topic) ==
    <<topic \o <<"explanation">>, topic \o <<"definition">>, <<"what", "is">> \o topic>>

\* the primary result sends fetch_educational_content to the alternatives
NeedsAlternatives(wikipedia_data) ==
    ~Truthy(wikipedia_data) \/ TextLen(wikipedia_data.extract) < MinExtract

\* an alternative result of 100 characters counted as long enough
AcceptedFrom(alt_data) == Truthy(alt_data) /\ TextLen(alt_data.extract) >= MinExtract

\* an alternative result is kept, and ends the loop
Accepted(alt_data) == Truthy(alt_data) /\ TextLen(alt_data.extract) > MinExtract

\* the results fetch_educational_content can see: the primary one, then the
\* alternatives up to the first accepted one
ResultRuns(topic) ==
    {<<r1>> : r1 \in {r \in WikiResults(topic) : ~NeedsAlternatives(r)}}
    \cup {<<r1, r2>> : r1 \in {r \in WikiResults(topic) : NeedsAlternatives(r)},
                       r2 \in {r \in WikiResults(AlternativeQueries(topic)[1]) : Accepted(r)}}
    \cup {<<r1, r2, r3>> : r1 \in {r \in WikiResults(topic) : NeedsAlternatives(r)},
                           r2 \in {r \in WikiResults(AlternativeQueries(topic)[1]) : ~Accepted(r)},
                           r3 \in {r \in WikiResults(AlternativeQueries(topic)[2]) : Accepted(r)}}
    \cup {<<r1, r2, r3, r4>> : r1 \in {r \in WikiResults(topic) : NeedsAlternatives(r)},
                               r2 \in {r \in WikiResults(AlternativeQueries(topic)[1]) : ~Accepted(r)},
                               r3 \in {r \in WikiResults(AlternativeQueries(topic)[2]) : ~Accepted(r)},
                               r4 \in WikiResults(AlternativeQueries(topic)[3])}

\* StudyMaterialFetcher.fetch_educational_content, on the results of its queries
FetchEducationalContent(topic, run) ==
    LET wikipedia_data == run[1]
        first == IF Truthy(wikipedia_data) THEN <<wikipedia_data>> ELSE <<>>
        alts == SubSeq(run, 2, Len(run))
        kept == IF NeedsAlternatives(wikipedia_data) /\ alts # <<>> /\ Accepted(alts[Len(alts)])
                THEN <<alts[Len(alts)]>> ELSE <<>>
    IN  [py |-> "dict", topic |-> topic, sources |-> first \o kept, total_sources |-> Len(first \o kept)]

WikipediaEvents(topic, run) ==
    [i \in DOMAIN run |->
        [ev |-> "wikipedia",
         query |-> IF i = 1 THEN topic ELSE AlternativeQueries(topic)[i - 1],
         result |-> run[i]]]

StudyPrompt(topic, content_type, difficulty, language) ==
    (CASE content_type = "notes" ->
            <<"Based", "on", "internet", "sources", "about">> \o topic
                \o <<"create", "comprehensive", "study", "notes", difficulty>>
       [] content_type = "summary" ->
            <<"Based", "on", "internet", "sources", "about">> \o topic
                \o <<"create", "a", "concise", "summary", difficulty>>
       [] OTHER ->
            <<"Create", content_type, "on">> \o topic \o <<"for", difficulty, "level", "students.">>)
    \o (IF language # "en" THEN <<"Translate", "the", "content", "to", language>> ELSE <<>>)

\* the 'sources' of the result: the truthy urls
SourceUrls(sources) ==
    LET with == SelectSeq(sources, LAMBDA src : src.url # "") IN
    PyList([i \in DOMAIN with |-> [py |-> "str", url |-> with[i].url]])

\* StudyMaterialFetcher.compile_study_material
CompileStudyMaterial(topic, content_type, difficulty, language, run, ai) ==
    LET internet_content == FetchEducationalContent(topic, run) IN
    IF internet_content.sources # <<>> /\ ai_configured
    THEN Ok([py |-> "dict",
             type |-> content_type,
             topic |-> topic,
             content |-> CallAi(StudyPrompt(topic, content_type, difficulty, language), ai),
             difficulty |-> difficulty,
             sources |-> SourceUrls(internet_content.sources),
             generated_from_internet |-> TRUE])
    ELSE IF ai_configured
    THEN Generate(topic, content_type, difficulty, language, ai)
    ELSE Ok([py |-> "dict", type |-> content_type, topic |-> topic,
             content |-> ReplyText("none", NotJson), difficulty |-> difficulty,
             generated_from_internet |-> FALSE])

CompileLog(topic, content_type, difficulty, language, run, ai) ==
    WikipediaEvents(topic, run)
    \o (IF ~ai_configured THEN <<>>
        ELSE IF FetchEducationalContent(topic, run).sources # <<>>
        THEN <<AiEvent(StudyPrompt(topic, content_type, difficulty, language), 3000, ai)>>
        ELSE <<[ev |-> "generate", content_type |-> content_type],
               AiEvent(GeneratePrompt(topic, content_type, difficulty, language), 2000, ai)>>)

StudyCalls ==
    {[op |-> "compile_study_material", topic |-> t, content_type |-> c, difficulty |-> "medium", language |-> l] :
        t \in {<<"algebra">>, <<"Quiz", "night">>}, c \in {"notes", "summary", "video_script"},
        l \in Languages}
    \cup {[op |-> "fetch_educational_content", topic |-> t] : t \in {<<"algebra">>, <<"Quiz", "night">>}}

\* the texts the model may answer a synthesis prompt with
StudyOutcomes ==
    IF ~(api_available /\ ai_configured) THEN {NoUpstream}
    ELSE {[kind |-> "error"], [kind |-> "text", text |-> ReplyText("none", NotJson)],
          [kind |-> "text", text |-> ReplyText("clean", EmptyDict)]}

\* StudyMaterialFetcher.__init__: the generator is optional
InitStudy ==
    /\ api_available \in BOOLEAN
    /\ ai_configured \in BOOLEAN
    /\ pc = "idle"
    /\ call \in StudyCalls
    /\ ret = NoRet
    /\ log = <<>>
    /\ AppAtRest

DoCompileStudyMaterial ==
    /\ pc = "idle" /\ call.op = "compile_study_material"
    /\ \E run \in ResultRuns(call.topic) : \E ai \in StudyOutcomes :
        /\ ret' = CompileStudyMaterial(call.topic, call.content_type, call.difficulty, call.language, run, ai)
        /\ log' = CompileLog(call.topic, call.content_type, call.difficulty, call.language, run, ai)
    /\ pc' = "done"
    /\ UNCHANGED <<api_available, ai_configured, call>>
    /\ UNCHANGED appVars

DoFetchEducationalContent ==
    /\ pc = "idle" /\ call.op = "fetch_educational_content"
    /\ \E run \in ResultRuns(call.topic) :
        /\ ret' = Ok(FetchEducationalContent(call.topic, run))
        /\ log' = WikipediaEvents(call.topic, run)
    /\ pc' = "done"
    /\ UNCHANGED <<api_available, ai_configured, call>>
    /\ UNCHANGED appVars

NextStudy ==
    \/ DoCompileStudyMaterial
    \/ DoFetchEducationalContent

SpecStudy == InitStudy /\ [][NextStudy]_vars

\* ====================================================== the application
\* str.strip() on the form values the requests carry
Strip(v) ==
    CASE v = " amy " -> "amy"
      [] v = " Teacher " -> "Teacher"
      [] v = "  " -> ""
      [] OTHER -> v

\* str.lower() on a role value
LowerRole(v) ==
    CASE v = "Teacher" -> "teacher"
      [] v = "ADMIN" -> "admin"
      [] OTHER -> v

\* len(password)
PasswordLen(password) ==
    CASE password = "" -> 0
      [] password = "short" -> 5
      [] password = "secret1" -> 7
      [] OTHER -> 8

\* text.strip() on a token text: the blanks at both ends go
StripText(text) == SelectSeq(text, LAMBDA tok : tok # " ")

First(S) == CHOOSE i \in S : \A j \in S : i <= j

SessionRole == IF "role" \in DOMAIN session THEN session.role ELSE ""
LoggedIn == "user_id" \in DOMAIN session

Pass == [status |-> 0, to |-> ""]
Answer(status, to) == [status |-> status, to |-> to]

NoLoginCheck(is_json) == Pass

\* the login_required decorator
LoginRequired(is_json) ==
    IF ~LoggedIn
    THEN IF is_json THEN Answer(401, "") ELSE Answer(302, "login")
    ELSE Pass

\* the role_required decorator: login_required, then the role of the stored
\* user with the session's id, when there is one
RoleRequired(roles, is_json) ==
    IF LoginRequired(is_json) # Pass THEN LoginRequired(is_json)
    ELSE IF LoggedIn /\ session.user_id \in DOMAIN users /\ users[session.user_id].role \notin roles
    THEN IF is_json THEN Answer(403, "") ELSE Answer(302, "index")
    ELSE Pass

TeacherRoles == {"teacher", "admin"}
AnyRole == {}

\* the decorator of a view: role_required with its roles, login_required alone
\* where there are none
Gate(roles, is_json) ==
    IF roles = AnyRole THEN LoginRequired(is_json) ELSE RoleRequired(roles, is_json)

NoFile == [format |-> "none"]

\* what a view function did: its status, the Content Generator entry points
\* it invoked, its external fetches, the rows it committed, the content_id of
\* its answer (0: none), and for /export the format asked for and the file
\* sent. `error` is the kind of message the answer carries: none, the message
\* of the view ("message"), or the text of a database exception ("database")
Handled(status, gen, ext, rows, prog) ==
    [status |-> status, to |-> "", gen |-> gen, ext |-> ext, rows |-> rows, prog |-> prog,
     content_id |-> 0, format |-> "", file |-> NoFile,
     error |-> IF status >= 400 THEN "message" ELSE ""]

Refused(gate) ==
    [status |-> gate.status, to |-> gate.to, gen |-> <<>>, ext |-> 0, rows |-> <<>>, prog |-> <<>>,
     content_id |-> 0, format |-> "", file |-> NoFile,
     error |-> IF gate.status >= 400 THEN "message" ELSE ""]

\* a request body that is no JSON: request.json raises inside the view's try
NoJson == Handled(500, <<>>, 0, <<>>, <<>>)
BadRequest == Handled(400, <<>>, 0, <<>>, <<>>)

Replaced(table, rows) == rows

\* db.session.add(row) and db.session.commit(): the rows join their table
Committed(table, rows) == table \o rows

\* a request through its decorator to the view, whose possible effects on a
\* JSON body are `effects`; call.rows is the number of rows the run stores
Serve(endpoint, method, roles, effects) ==
    \E is_json \in BOOLEAN :
        \E a \in (IF Gate(roles, is_json) # Pass THEN {Refused(Gate(roles, is_json))}
                  ELSE IF method = "GET" THEN effects
                  ELSE IF ~is_json THEN {NoJson}
                  ELSE effects) :
            /\ Len(contents) + Len(progress) + Len(a.rows) + Len(a.prog) <= call.rows
            /\ contents' = Committed(contents, a.rows)
            /\ progress' = Committed(progress, a.prog)
            /\ resp' = [endpoint |-> endpoint, method |-> method, is_json |-> is_json,
                        status |-> a.status, to |-> a.to, gen |-> a.gen, ext |-> a.ext,
                        wrote |-> Len(a.rows) + Len(a.prog), content_id |-> a.content_id,
                        format |-> a.format, file |-> a.file, error |-> a.error]
            /\ UNCHANGED <<users, session, api_available, ai_configured, pc, call, ret, log>>

\* an answer of the authentication views, which touch no table but user
AuthAnswer(endpoint, method, is_json, status, to, wrote) ==
    resp' = [endpoint |-> endpoint, method |-> method, is_json |-> is_json,
             status |-> status, to |-> to, gen |-> <<>>, ext |-> 0, wrote |-> wrote,
             content_id |-> 0, format |-> "", file |-> NoFile,
             error |-> IF status >= 400 THEN "message" ELSE ""]

\* the answer of register after a commit that raised: str(e) in the JSON
\* answer, the flashed 'An error occurred during registration' on the page
RegistrationFailed(is_json) ==
    resp' = [endpoint |-> "/register", method |-> "POST", is_json |-> is_json,
             status |-> IF is_json THEN 500 ELSE 200, to |-> "", gen |-> <<>>, ext |-> 0, wrote |-> 0,
             content_id |-> 0, format |-> "", file |-> NoFile, error |-> "database"]

\* create_tables: drop_all, create_all and the default admin; the cookie the
\* browser holds is signed with the same SECRET_KEY and stays valid
CreateTables ==
    /\ users' = <<DefaultAdmin>>
    /\ contents' = <<>>
    /\ progress' = <<>>
    /\ resp' = NoResp
    /\ UNCHANGED <<session, api_available, ai_configured, pc, call, ret, log>>

\* a session that says student, whatever the user's role
StudentSession(user_id, user) ==
    [py |-> "dict", user_id |-> user_id, username |-> user.username, role |-> "student"]

\* session['user_id'], session['username'], session['role'] of login and register
SessionOf(user_id, user) ==
    [py |-> "dict", user_id |-> user_id, username |-> user.username, role |-> user.role]

LoginForms ==
    {[username |-> "admin", password |-> "admin123"], [username |-> " amy ", password |-> "secret1"],
     [username |-> "amy@x", password |-> "secret1"], [username |-> "bob", password |-> "secret1"],
     [username |-> "admin", password |-> "secret1"], [username |-> "  ", password |-> "secret1"],
     [username |-> "amy", password |-> ""]}

\* POST /login
Login ==
    \E is_json \in BOOLEAN, form \in LoginForms :
        LET username == Strip(form.username)
            found == {i \in DOMAIN users : users[i].username = username \/ users[i].email = username}
        IN  /\ IF username = "" \/ form.password = ""
               THEN /\ AuthAnswer("/login", "POST", is_json, IF is_json THEN 400 ELSE 200, "", 0)
                    /\ session' = session
               ELSE IF found # {} /\ CheckPassword(users[First(found)].password_hash, form.password)
               THEN /\ session' = SessionOf(First(found), users[First(found)])
                    /\ AuthAnswer("/login", "POST", is_json, IF is_json THEN 200 ELSE 302,
                                  IF is_json THEN "" ELSE "index", 0)
               ELSE /\ AuthAnswer("/login", "POST", is_json, IF is_json THEN 401 ELSE 200, "", 0)
                    /\ session' = session
            /\ UNCHANGED <<users, contents, progress, api_available, ai_configured, pc, call, ret, log>>

\* data.get('role', 'student') of a form: "" stands for a form without the field
RoleField(form) == IF form.role = "" THEN "student" ELSE form.role

\* the registration forms the application is exercised with; the forms of amy
\* carry a role value each and an address that tells them apart
RegisterForms ==
    {[username |-> " amy ", email |-> f[1], password |-> "secret1", role |-> f[2]] :
        f \in {<<"amy@x", "">>, <<"amy@t", " Teacher ">>, <<"amy@a", "ADMIN">>, <<"amy@r", "root">>}}
    \cup {[username |-> "bob", email |-> "bob@x", password |-> "secret1", role |-> "teacher"],
          [username |-> "bob", email |-> "admin@edumentor.ai", password |-> "secret1", role |-> "student"],
          [username |-> "admin", email |-> "bob@x", password |-> "secret1", role |-> "student"],
          [username |-> "  ", email |-> "bob@x", password |-> "secret1", role |-> "student"],
          [username |-> "bob", email |-> "bob@x", password |-> "short", role |-> "student"]}

\* the role of the form as typed, trimmed and lowered, with no validation
RequestedRole(form) == LowerRole(Strip(RoleField(form)))

\* the role of the form, validated, whoever asks
ValidatedRole(form) ==
    IF RequestedRole(form) \notin {"student", "teacher", "admin"} THEN "student" ELSE RequestedRole(form)

\* the role register stores for a form
StoredRole(form) ==
    LET role == LowerRole(Strip(RoleField(form)))
        valid == IF role \notin {"student", "teacher", "admin"} THEN "student" ELSE role
    IN  IF valid = "admin" /\ SessionRole # "admin" THEN "student" ELSE valid

\* POST /register; `commit_ok` is false when the commit raises
Register ==
    \E is_json \in BOOLEAN, form \in RegisterForms :
        LET username == Strip(form.username)
            email == Strip(form.email)
            refuse == /\ AuthAnswer("/register", "POST", is_json, IF is_json THEN 400 ELSE 200, "", 0)
                      /\ UNCHANGED <<users, session>>
        IN  /\ IF username = "" \/ email = "" \/ form.password = "" THEN refuse
               ELSE IF PasswordLen(form.password) < 6 THEN refuse
               ELSE IF \E i \in DOMAIN users : users[i].username = username THEN refuse
               ELSE IF \E i \in DOMAIN users : users[i].email = email THEN refuse
               ELSE \E commit_ok \in BOOLEAN :
                    IF commit_ok
                    THEN /\ Len(users) < MaxUsers
                         /\ users' = Append(users, [username |-> username, email |-> email,
                                                    password_hash |-> Hash(form.password),
                                                    role |-> StoredRole(form)])
                         /\ session' = SessionOf(Len(users) + 1,
                                                 [username |-> username, role |-> StoredRole(form)])
                         /\ AuthAnswer("/register", "POST", is_json, IF is_json THEN 200 ELSE 302,
                                       IF is_json THEN "" ELSE "index", 1)
                    ELSE /\ RegistrationFailed(is_json)
                         /\ UNCHANGED <<users, session>>
            /\ UNCHANGED <<contents, progress, api_available, ai_configured, pc, call, ret, log>>

\* GET /logout
Logout ==
    /\ session' = NoSession
    /\ AuthAnswer("/logout", "GET", FALSE, 302, "login", 0)
    /\ UNCHANGED <<users, contents, progress, api_available, ai_configured, pc, call, ret, log>>

\* the replies of the model the application is exercised with
AppOutcomes ==
    IF ~api_available THEN {NoUpstream}
    ELSE {[kind |-> "error"],
          [kind |-> "text", text |-> ReplyText("none", [py |-> "dict", questions |-> PyInt(5)])]}

GoodSource(query) ==
    FetchFromWikipedia(query, [kind |-> "ok", extract |-> Extract(250, 0),
                               url |-> "https://en.wikipedia.org/wiki/Page", search |-> [kind |-> "unused"]])

AppRuns(topic) == {<<GoodSource(topic)>>, <<PyNone, PyNone, PyNone, PyNone>>}

AppTopics == {<<>>, <<"algebra">>}

\* json.dumps(value): the text json.loads reads the value back from
JsonDumps(value) == ReplyText("none", value)

ContentRow(content_type, topic, result, difficulty, language, use_internet) ==
    [user_id |-> session.user_id, content_type |-> content_type, topic |-> topic,
     content |-> JsonDumps(result),
     content_metadata |-> JsonDumps([py |-> "dict", difficulty |-> difficulty, language |-> language,
                                     use_internet |-> use_internet])]

\* the tail of generate_content: one GeneratedContent row, then the commit
Persist(content_type, topic, result, body, gen, ext, commit_ok) ==
    IF result.st = "raise" \/ ~LoggedIn THEN Handled(500, gen, ext, <<>>, <<>>)
    ELSE IF ~commit_ok THEN [Handled(500, gen, ext, <<>>, <<>>) EXCEPT !.error = "database"]
    ELSE [Handled(200, gen, ext,
                  <<ContentRow(content_type, topic, result.v, body.difficulty, body.language, body.use_internet)>>,
                  <<>>) EXCEPT !.content_id = Len(contents) + 1]

\* generate_content, the view of POST /generate
GenerateContentView(body, ai, run, commit_ok) ==
    IF body.topic = <<>> THEN BadRequest
    ELSE IF body.content_type = "quiz"
    THEN LET topic == StripText(body.topic)
             quiz_result == GenerateQuiz(topic, body.num_questions, body.difficulty, ai)
         IN  IF topic = <<>> THEN BadRequest
             ELSE Persist("quiz", topic,
                          IF quiz_result.st = "raise" THEN quiz_result
                          ELSE Ok([py |-> "dict", type |-> "quiz", topic |-> topic,
                                   questions |-> quiz_result.v.questions, difficulty |-> body.difficulty]),
                          body, <<"generate_quiz">>, 0, commit_ok)
    ELSE IF body.use_internet
    THEN Persist(body.content_type, body.topic,
                 CompileStudyMaterial(body.topic, body.content_type, body.difficulty, body.language, run, ai),
                 body,
                 IF FetchEducationalContent(body.topic, run).sources # <<>> THEN <<"_call_ai">> ELSE <<"generate">>,
                 Len(run), commit_ok)
    ELSE Persist(body.content_type, body.topic,
                 Generate(body.topic, body.content_type, body.difficulty, body.language, ai),
                 body, <<"generate">>, 0, commit_ok)

GenerateBody(topic, content_type, use_internet) ==
    [topic |-> topic, content_type |-> content_type, difficulty |-> "medium", language |-> "en",
     use_internet |-> use_internet, num_questions |-> 1]

GenerateBodies ==
    {GenerateBody(<<>>, "notes", FALSE), GenerateBody(<<" ">>, "quiz", FALSE),
     GenerateBody(<<"algebra">>, "quiz", TRUE), GenerateBody(<<"algebra">>, "notes", FALSE),
     GenerateBody(<<"algebra">>, "notes", TRUE), GenerateBody(<<"algebra">>, "diagram_description", FALSE),
     GenerateBody(<<"algebra">>, "mindmap", FALSE)}

GenerateContent ==
    /\ Serve("/generate", "POST", AnyRole,
          UNION {{GenerateContentView(body, ai, run, commit_ok) :
                    run \in (IF body.use_internet /\ body.content_type # "quiz"
                             THEN AppRuns(body.topic) ELSE {<<PyNone>>}),
                    ai \in AppOutcomes, commit_ok \in BOOLEAN} : body \in GenerateBodies})

\* the answers of the trivia service the application is exercised with
AppOpentdb ==
    {[kind |-> "error"],
     [kind |-> "ok", response_code |-> 0, whole |-> TRUE, results |-> <<RawQuestion(1, FALSE)>>]}

\* generate_quiz, the view of POST /quiz
PostQuizView(body, outcome, perms, ai) ==
    IF body.topic = <<>> THEN BadRequest
    ELSE LET quiz == FetchQuiz(body.topic, body.num_questions, body.difficulty, outcome, perms, ai)
             gen == IF CallsGenerator(FetchFromOpentdb(body.topic, body.num_questions, body.difficulty,
                                                       outcome, perms), body.num_questions)
                    THEN <<"generate_quiz">> ELSE <<>>
         IN  Handled(IF quiz.st = "raise" THEN 500 ELSE 200, gen, 1, <<>>, <<>>)

QuizBodies == {[topic |-> t, num_questions |-> n, difficulty |-> "medium"] : t \in AppTopics, n \in {1, 2}}

PostQuiz ==
    /\ Serve("/quiz", "POST", AnyRole,
          UNION {{PostQuizView(body, outcome, perms, ai) :
                    perms \in ShufflesFor(outcome), body \in QuizBodies, ai \in AppOutcomes} :
                 outcome \in AppOpentdb})

\* int(num_questions) of generate_quiz_questions: the ValueError / TypeError
\* of a value that is no number falls back to 10
QuestionCount(v) == IF v.py = "int" THEN v.n ELSE 10

\* generate_quiz_questions, the view of POST /generate-quiz-questions
QuizQuestionsView(body, ai) ==
    LET topic == StripText(body.topic)
        num_questions == QuestionCount(body.num_questions)
        difficulty == IF body.difficulty \notin {"easy", "medium", "hard"} THEN "medium"
                      ELSE body.difficulty
        quiz == GenerateQuiz(topic, num_questions, difficulty, ai)
    IN  IF topic = <<>> THEN BadRequest
        ELSE IF num_questions < 1 \/ num_questions > 50 THEN BadRequest
        ELSE IF quiz.st = "raise" THEN Handled(500, <<"generate_quiz">>, 0, <<>>, <<>>)
        ELSE IF ~Truthy(quiz.v) \/ ~Truthy(quiz.v.questions)
        THEN Handled(500, <<"generate_quiz">>, 0, <<>>, <<>>)
        ELSE Handled(200, <<"generate_quiz">>, 0, <<>>, <<>>)

QuizQuestionBodies ==
    {[topic |-> <<"algebra">>, num_questions |-> n, difficulty |-> d] :
        n \in {PyInt(1), PyInt(0), PyInt(51), PyNone}, d \in Difficulties}
    \cup {[topic |-> <<" ">>, num_questions |-> PyInt(1), difficulty |-> "medium"]}

GenerateQuizQuestions ==
    /\ Serve("/generate-quiz-questions", "POST", AnyRole,
          {QuizQuestionsView(body, ai) : body \in QuizQuestionBodies, ai \in AppOutcomes})

\* a view that checks the topic (or question) and calls one generator operation
TopicView(topic, result, op) ==
    IF topic = <<>> THEN BadRequest
    ELSE Handled(IF result.st = "raise" THEN 500 ELSE 200, <<op>>, 0, <<>>, <<>>)

\* generate_flashcards, the view of POST /flashcards
PostFlashcards ==
    /\ Serve("/flashcards", "POST", AnyRole,
          {TopicView(topic, GenerateFlashcards(topic, 20, ai), "generate_flashcards") :
              topic \in AppTopics, ai \in AppOutcomes})

\* solve_doubt, the view of POST /doubt-solve
DoubtSolve ==
    /\ Serve("/doubt-solve", "POST", AnyRole,
          {TopicView(question, SolveDoubt(question, <<>>, ai), "solve_doubt") :
              question \in AppTopics, ai \in AppOutcomes})

\* generate_lesson_plan, the view of POST /lesson-plan
PostLessonPlan ==
    /\ Serve("/lesson-plan", "POST", TeacherRoles,
          {TopicView(topic, GenerateLessonPlan(topic, 60, "middle", ai), "generate_lesson_plan") :
              topic \in AppTopics, ai \in AppOutcomes})

\* generate_homework, the view of POST /homework
PostHomework ==
    /\ Serve("/homework", "POST", TeacherRoles,
          {TopicView(topic, GenerateHomework(topic, "medium", ai), "generate_homework") :
              topic \in AppTopics, ai \in AppOutcomes})

\* a view that renders its template
Page == {Handled(200, <<>>, 0, <<>>, <<>>)}

\* lesson_plan_page and homework_page, the views of GET /lesson-plan and /homework
TeacherPage ==
    /\ \E endpoint \in {"/lesson-plan", "/homework"} : Serve(endpoint, "GET", TeacherRoles, Page)

\* quiz_page, flashcards_page, doubt_solver_page and progress_page, which
\* answers every GET /progress, being the first rule of that path
MemberPage ==
    /\ \E endpoint \in {"/quiz", "/flashcards", "/doubt-solver", "/progress"} :
            Serve(endpoint, "GET", AnyRole, Page)

\* content.get('topic', 'Educational Content')
TitleOf(content) == IF "topic" \in DOMAIN content THEN content.topic ELSE <<"Educational", "Content">>

\* str(content)
StrOf(content) == [py |-> "str", repr |-> content]

\* the file a writer saves: its title (NoTitle: none written) and the text
\* its paragraphs are cut from; a text that is no str has no replace / split
NoTitle == <<>>
Written(format, title, content_text) ==
    IF content_text.py # "str" THEN Raise("AttributeError")
    ELSE Ok([format |-> format, title |-> title, text |-> content_text])

\* content.get('content', content.get('script', content.get('description',
\* str(content)))) of the pdf writer
ContentScriptOrDescription(content) ==
    IF "content" \in DOMAIN content THEN content.content
    ELSE IF "script" \in DOMAIN content THEN content.script
    ELSE IF "description" \in DOMAIN content THEN content.description
    ELSE StrOf(content)

\* ExportManager._export_pdf
ExportPdf(content) ==
    IF content.py = "dict"
    THEN Written("pdf", TitleOf(content), ContentScriptOrDescription(content))
    ELSE Written("pdf", NoTitle, StrOf(content))

\* content.get('content', content.get('script', str(content))) of the ppt
\* and docx writers
ContentOrScript(content) ==
    IF "content" \in DOMAIN content THEN content.content
    ELSE IF "script" \in DOMAIN content THEN content.script
    ELSE StrOf(content)

\* ExportManager._export_ppt
ExportPpt(content) ==
    IF content.py = "dict"
    THEN Written("pptx", TitleOf(content), ContentOrScript(content))
    ELSE Written("pptx", <<"Educational", "Content">>, StrOf(content))

\* ExportManager._export_docx
ExportDocx(content) ==
    IF content.py = "dict"
    THEN Written("docx", TitleOf(content), ContentOrScript(content))
    ELSE Written("docx", <<"Educational", "Content">>, StrOf(content))

\* ExportManager.export: the file written, or the ValueError of a format
\* that is none of pdf, ppt, docx
Export(content, format_type) ==
    CASE format_type = "pdf" -> ExportPdf(content)
      [] format_type = "ppt" -> ExportPpt(content)
      [] format_type = "docx" -> ExportDocx(content)
      [] OTHER -> Raise("ValueError")

\* the answer of export_content to a body: the content_id and format it
\* asked for and the file sent
Exported(status, body, file) ==
    [Handled(status, <<>>, 0, <<>>, <<>>) EXCEPT
        !.content_id = body.content_id, !.format = body.format, !.file = file]

\* export_content, the view of POST /export; content_id 0 stands for none
ExportView(body) ==
    IF body.content_id = 0 /\ ~Truthy(body.content) THEN Exported(400, body, NoFile)
    ELSE IF body.content_id # 0 /\ body.content_id \notin DOMAIN contents
    THEN Exported(404, body, NoFile)
    ELSE LET content_data == IF body.content_id # 0
                             THEN JsonLoads(contents[body.content_id].content).v
                             ELSE body.content
             file_path == Export(content_data, body.format)
         IN  IF file_path.st = "raise" THEN Exported(500, body, NoFile)
             ELSE Exported(200, body, file_path.v)

ExportBodies ==
    {[content_id |-> i, format |-> f, content |-> c] :
        i \in 0..call.rows, f \in {"pdf", "ppt", "docx", "txt"},
        c \in {PyNone, [py |-> "dict", type |-> "diagram", topic |-> <<"algebra">>,
                        description |-> SampleText, difficulty |-> "medium"]}}

ExportContent ==
    /\ Serve("/export", "POST", AnyRole, {ExportView(body) : body \in ExportBodies})

\* ProgressTracker.update_progress: one Progress row; a topic of None breaks
\* the NOT NULL of the column at the commit. completed_at is the column's
\* default, datetime.utcnow, read as a clock that ticks with every insert
UpdateProgress(topic, score, difficulty, user_id, commit_ok) ==
    IF topic.py = "None" \/ ~commit_ok THEN Raise("SQLAlchemyError")
    ELSE Ok([user_id |-> user_id, topic |-> topic.s, difficulty_level |-> difficulty, score |-> score,
             completed_at |-> Len(progress) + 1])

\* handle_progress, the view of POST /progress
ProgressView(body, commit_ok) ==
    IF ~LoggedIn THEN Handled(500, <<>>, 0, <<>>, <<>>) ELSE
    LET row == UpdateProgress(body.topic, body.score, body.difficulty, session.user_id, commit_ok) IN
    IF row.st = "raise" THEN [Handled(500, <<>>, 0, <<>>, <<>>) EXCEPT !.error = "database"]
    ELSE Handled(200, <<>>, 0, <<>>, <<row.v>>)

ProgressBodies ==
    {[topic |-> t, score |-> 90, difficulty |-> "medium"] :
        t \in {PyNone, [py |-> "str", s |-> <<"algebra">>]}}

HandleProgress ==
    /\ Serve("/progress", "POST", AnyRole,
          {ProgressView(body, commit_ok) : body \in ProgressBodies, commit_ok \in BOOLEAN})

\* the application after create_tables, with the generator of the process
InitApp ==
    /\ api_available \in BOOLEAN
    /\ ai_configured = TRUE
    /\ pc = "idle"
    /\ call = [op |-> "serve", rows |-> MaxRows]
    /\ ret = NoRet
    /\ log = <<>>
    /\ AppAtRest

NextApp ==
    \/ CreateTables
    \/ Login
    \/ Register
    \/ Logout
    \/ GenerateContent
    \/ PostQuiz
    \/ GenerateQuizQuestions
    \/ PostFlashcards
    \/ DoubtSolve
    \/ PostLessonPlan
    \/ PostHomework
    \/ TeacherPage
    \/ MemberPage
    \/ ExportContent
    \/ HandleProgress

SpecApp == InitApp /\ [][NextApp]_vars

\* the store under the requests that write and read it, with the accounts
\* create_tables leaves and a generator that has its API key (a failing
\* model call answers what the generator without a key answers)
InitStore ==
    /\ api_available = TRUE
    /\ ai_configured = TRUE
    /\ pc = "idle"
    /\ call = [op |-> "serve", rows |-> MaxStored]
    /\ ret = NoRet
    /\ log = <<>>
    /\ AppAtRest

NextStore ==
    \/ CreateTables
    \/ Login
    \/ Logout
    \/ GenerateContent
    \/ ExportContent
    \/ HandleProgress

SpecStore == InitStore /\ [][NextStore]_vars

\* ===================================================== Progress Tracker
MaxHistory == 6
RecentLimit == 5
HardFrom == 80
MediumFrom == 60

RECURSIVE SumScores(_)

AllOfTopic(topic, user_id) ==
    {i \in DOMAIN progress : progress[i].user_id = user_id /\ progress[i].topic = topic}

\* query.filter_by(user_id, topic).order_by(completed_at.desc()).limit(5):
\* the rows of the user and topic that fewer than five such rows are newer than
RecentProgress(topic, user_id) ==
    LET mine == {i \in DOMAIN progress : progress[i].user_id = user_id /\ progress[i].topic = topic}
    IN  {i \in mine :
            Cardinality({j \in mine : progress[j].completed_at > progress[i].completed_at}) < RecentLimit}

\* sum(scores) over the rows of a set
SumScores(rows) ==
    IF rows = {} THEN 0
    ELSE LET i == CHOOSE r \in rows : TRUE IN progress[i].score + SumScores(rows \ {i})

\* ProgressTracker.get_adaptive_difficulty; avg >= t is read on the exact
\* quotient, sum >= t * len, which is where the float quotient of such scores falls
GetAdaptiveDifficulty(topic, user_id) ==
    LET recent_progress == RecentProgress(topic, user_id)
        total == SumScores(recent_progress)
        n == Cardinality(recent_progress)
    IN  IF recent_progress = {} THEN "medium"
        ELSE IF total >= HardFrom * n THEN "hard"
        ELSE IF total >= MediumFrom * n THEN "medium"
        ELSE "easy"

\* get_progress without its filter_by(user_id): the entries of every row
AllEntries(user_id) ==
    PyList([i \in DOMAIN progress |->
                [py |-> "dict", topic |-> progress[i].topic, difficulty |-> progress[i].difficulty_level,
                 score |-> progress[i].score, completed_at |-> progress[i].completed_at]])

\* ProgressTracker.get_progress: the entries of the user's rows, in table order
GetProgress(user_id) ==
    LET mine == SelectSeq(progress, LAMBDA row : row.user_id = user_id) IN
    PyList([i \in DOMAIN mine |->
                [py |-> "dict", topic |-> mine[i].topic, difficulty |-> mine[i].difficulty_level,
                 score |-> mine[i].score, completed_at |-> mine[i].completed_at]])

ProgressUsers == {1, 2}
ProgressTopics == {<<"algebra">>, <<"history">>}

\* the update_progress calls the tracker is exercised with
ProgressCalls ==
    {[op |-> "update_progress", topic |-> [py |-> "str", s |-> <<"algebra">>], score |-> sc,
      difficulty |-> "medium", user_id |-> 1] : sc \in {50, 70, 90}}
    \cup {[op |-> "update_progress", topic |-> [py |-> "str", s |-> <<"algebra">>], score |-> 50,
           difficulty |-> "hard", user_id |-> 2],
          [op |-> "update_progress", topic |-> [py |-> "str", s |-> <<"history">>], score |-> 50,
           difficulty |-> "medium", user_id |-> 1],
          [op |-> "update_progress", topic |-> PyNone, score |-> 90,
           difficulty |-> "medium", user_id |-> 1]}

\* one update_progress call; the log keeps the calls that returned
DoUpdateProgress ==
    \E c \in ProgressCalls, commit_ok \in BOOLEAN :
        LET row == UpdateProgress(c.topic, c.score, c.difficulty, c.user_id, commit_ok) IN
        /\ Len(progress) < MaxHistory
        /\ call' = c
        /\ pc' = "done"
        /\ IF row.st = "raise"
           THEN /\ ret' = row
                /\ UNCHANGED <<progress, log>>
           ELSE /\ ret' = Ok(PyNone)
                /\ progress' = Append(progress, row.v)
                /\ log' = Append(log, [ev |-> "update_progress", topic |-> c.topic.s, score |-> c.score,
                                       difficulty |-> c.difficulty, user_id |-> c.user_id])
        /\ UNCHANGED <<api_available, ai_configured, users, session, contents, resp>>

DoGetAdaptiveDifficulty ==
    \E topic \in ProgressTopics, user_id \in ProgressUsers :
        /\ call' = [op |-> "get_adaptive_difficulty", topic |-> topic, user_id |-> user_id]
        /\ ret' = Ok([py |-> "str", s |-> GetAdaptiveDifficulty(topic, user_id)])
        /\ pc' = "done"
        /\ UNCHANGED <<api_available, ai_configured, log>>
        /\ UNCHANGED appVars

DoGetProgress ==
    \E user_id \in ProgressUsers :
        /\ call' = [op |-> "get_progress", user_id |-> user_id]
        /\ ret' = Ok(GetProgress(user_id))
        /\ pc' = "done"
        /\ UNCHANGED <<api_available, ai_configured, log>>
        /\ UNCHANGED appVars

\* ProgressTracker.__init__ over an empty progress table
InitProgress ==
    /\ api_available = FALSE
    /\ ai_configured = TRUE
    /\ pc = "idle"
    /\ call = [op |-> "none"]
    /\ ret = NoRet
    /\ log = <<>>
    /\ AppAtRest

NextProgress ==
    \/ DoUpdateProgress
    \/ DoGetAdaptiveDifficulty
    \/ DoGetProgress

SpecProgress == InitProgress /\ [][NextProgress]_vars

\* ======================================================= Export Writer
\* a text of the content dictionaries the writer is exercised with
Prose(words) == ReplyText("none", [py |-> "notjson", words |-> words])

\* dictionaries with every choice of topic, content, script and description,
\* a content of None, and a content that is no dictionary
ExportContents ==
    {[k \in keys \cup {"py"} |->
        CASE k = "py" -> "dict"
          [] k = "topic" -> <<"algebra">>
          [] k = "content" -> Prose(<<"the", "notes">>)
          [] k = "script" -> Prose(<<"the", "script">>)
          [] OTHER -> Prose(<<"the", "diagram">>)] :
        keys \in SUBSET {"topic", "content", "script", "description"}}
    \cup {[py |-> "dict", topic |-> <<"algebra">>, content |-> PyNone],
          PyChars(<<"a", "b", "c">>)}

ExportFormats == {"pdf", "ppt", "docx", "txt"}

ExportCalls == {[op |-> "export", content |-> c, format_type |-> f] : c \in ExportContents, f \in ExportFormats}

\* ExportManager.__init__
InitExport ==
    /\ api_available = FALSE
    /\ ai_configured = TRUE
    /\ pc = "idle"
    /\ call \in ExportCalls
    /\ ret = NoRet
    /\ log = <<>>
    /\ AppAtRest

DoExport ==
    /\ pc = "idle" /\ call.op = "export"
    /\ ret' = Export(call.content, call.format_type)
    /\ pc' = "done"
    /\ UNCHANGED <<api_available, ai_configured, call, log>>
    /\ UNCHANGED appVars

NextExport == DoExport

SpecExport == InitExport /\ [][NextExport]_vars

\* ===================================================== the claims
Done(op) == pc = "done" /\ call.op = op

\* what fetch_from_opentdb handed to fetch_quiz, and how many questions it held
Got == log[1].got
Have == ExternalCount(log[1].got)

\* the decoded text of the correct answer of every question the service sends
KnownCorrect == <<"R", "&", "D">>

\* C1: for every requested count N, whatever the trivia service and the
\* generator do, the list fetch_quiz returns has at most N entries
C1_LengthAtMostN ==
    (Done("fetch_quiz") /\ ret.st = "ok") => PyLen(ret.v.questions) <= call.num_questions

IndexInBounds(q) == q.py = "dict" /\ "correct" \in DOMAIN q /\ q.correct \in 0..(Len(q.options) - 1)

\* C2: every question fetch_quiz returns has `correct` within the bounds of
\* its options, and a question of the trivia service has the decoded correct
\* answer at options[correct]
C2_CorrectIndexValid ==
    (Done("fetch_quiz") /\ ret.st = "ok" /\ ret.v.questions.py = "list") =>
        \A i \in DOMAIN ret.v.questions.items :
            LET q == ret.v.questions.items[i] IN
            /\ IndexInBounds(q)
            /\ i <= Have => q.options[q.correct + 1] = KnownCorrect

\* the part of C2 about the questions of the trivia service alone
ExternalIndexValid ==
    (Done("fetch_quiz") /\ ret.st = "ok" /\ Have > 0) =>
        \A i \in 1..Len(ret.v.questions.items) :
            LET q == ret.v.questions.items[i] IN
            i <= Have => IndexInBounds(q) /\ q.options[q.correct + 1] = KnownCorrect

\* C9: with at least N questions from the trivia service fetch_quiz returns
\* the first N of them in the order received and does not call the generator
C9_EnoughExternal ==
    (Done("fetch_quiz") /\ Have >= call.num_questions) =>
        /\ ret = Ok([py |-> "dict", questions |-> PyList(SubSeq(Got.questions.items, 1, call.num_questions))])
        /\ \A i \in 1..call.num_questions : ret.v.questions.items[i].question = <<"q", ToString(i), "\"">>
        /\ \A i \in DOMAIN log : log[i].ev \notin {"generate_quiz", "call_ai"}

C9_Witness ==
    /\ Done("fetch_quiz") /\ Have > call.num_questions
    /\ ret.st = "ok" /\ Len(ret.v.questions.items) = call.num_questions

\* C10: with e questions from the trivia service, 0 < e < N, and a generator,
\* fetch_quiz asks the generator once, for N - e questions, and returns the e
\* external questions followed by at most N - e generated ones
C10_TopUp ==
    (Done("fetch_quiz") /\ 0 < Have /\ Have < call.num_questions /\ ai_configured) =>
        /\ Len(log) = 3
        /\ log[2] = [ev |-> "generate_quiz", num_questions |-> call.num_questions - Have]
        /\ ret.st = "ok"
        /\ ret.v.questions.py = "list"
        /\ Len(ret.v.questions.items) <= call.num_questions
        /\ SubSeq(ret.v.questions.items, 1, Have) = Got.questions.items

ExpectedKeys(c) ==
    CASE c.op = "generate_quiz" -> {"questions"}
      [] c.op = "generate_flashcards" -> {"cards"}
      [] c.op = "generate" /\ c.content_type \in {"notes", "summary"} -> {"topic", "content"}
      [] c.op = "generate" /\ c.content_type = "diagram_description" -> {"topic", "description"}
      [] c.op = "generate" /\ c.content_type = "video_script" -> {"topic", "script"}
      [] OTHER -> {"content"}

\* C5: generate, generate_quiz and generate_flashcards return a dictionary
\* with the keys of the requested type, the questions and cards being arrays
C5_WellFormed ==
    (pc = "done" /\ call.op \in {"generate", "generate_quiz", "generate_flashcards"}) =>
        /\ ret.st = "ok"
        /\ ret.v.py = "dict"
        /\ ExpectedKeys(call) \subseteq Keys(ret.v)
        /\ call.op = "generate_quiz" => ret.v.questions.py = "list"
        /\ call.op = "generate_flashcards" => ret.v.cards.py = "list"

ArrayKey(c) == IF c.op = "generate_quiz" THEN "questions" ELSE "cards"

\* the reply is a JSON object with a non-empty array under the key
UsableReply(c, text) ==
    /\ text.fence = "none" \/ (c.op = "generate_quiz" /\ text.fence = "clean")
    /\ text.body.py = "dict"
    /\ ArrayKey(c) \in DOMAIN text.body
    /\ text.body[ArrayKey(c)].py = "list"
    /\ text.body[ArrayKey(c)].items # <<>>

\* C6: a reply that is not a JSON object with a non-empty questions / cards
\* array makes generate_quiz / generate_flashcards return the one-item
\* placeholder array
C6_Placeholder ==
    (pc = "done" /\ call.op \in {"generate_quiz", "generate_flashcards"}
        /\ ~UsableReply(call, log[1].text)) =>
        /\ ret.st = "ok"
        /\ ret.v = IF call.op = "generate_quiz" THEN QuizFallback(call.topic)
                   ELSE FlashcardsFallback(call.topic)

\* C7: no operation of the Content Generator raises
C7_NeverRaises ==
    (pc = "done" /\ call.op \in {"generate", "generate_quiz", "generate_flashcards", "solve_doubt",
                                "generate_lesson_plan", "generate_homework"}) => ret.st = "ok"

\* the results of the Wikipedia queries compile_study_material made
Queried == SelectSeq(log, LAMBDA e : e.ev = "wikipedia")

\* C8: when none of the four query variants yields an extract of at least
\* 100 characters, the result is not flagged generated_from_internet
C8_NotFromInternet ==
    (Done("compile_study_material") /\ Len(Queried) = 4
        /\ \A i \in DOMAIN Queried :
              Truthy(Queried[i].result) => TextLen(Queried[i].result.extract) < MinExtract) =>
        /\ ret.st = "ok"
        /\ "generated_from_internet" \in DOMAIN ret.v => ret.v.generated_from_internet = FALSE

\* the endpoints that generate or mutate, as the requests reach them
GuardedRequest ==
    /\ resp.endpoint \in {"/generate", "/quiz", "/generate-quiz-questions", "/flashcards",
                          "/doubt-solve", "/export", "/progress", "/lesson-plan", "/homework"}
    /\ (resp.method = "POST" \/ resp.endpoint = "/progress")

TeacherOnlyRequest == resp.endpoint \in {"/lesson-plan", "/homework"}

\* C3: a request to GET or POST /lesson-plan or /homework that carries a
\* session established for a student is answered 403 (JSON) or with a
\* redirect, and no generator operation runs for it, whatever registrations,
\* logins, logouts and restarts came before
C3_StudentRefused ==
    (TeacherOnlyRequest /\ LoggedIn /\ SessionRole = "student") =>
        /\ IF resp.is_json THEN resp.status = 403 ELSE resp.status = 302
        /\ resp.gen = <<>>

\* C4: a request without user_id in its session to a generation or mutating
\* endpoint is answered 401 (JSON) or redirected to login, and calls no
\* generator, fetches nothing and writes no row
C4_Unauthenticated ==
    (GuardedRequest /\ ~LoggedIn) =>
        /\ IF resp.is_json THEN resp.status = 401 ELSE resp.status = 302 /\ resp.to = "login"
        /\ resp.gen = <<>>
        /\ resp.ext = 0
        /\ resp.wrote = 0

C4_Witness ==
    /\ GuardedRequest /\ ~LoggedIn
    /\ resp.endpoint = "/generate" /\ resp.status = 401
    /\ Len(users) > 1

C11_WitnessGenerator ==
    /\ Done("fetch_quiz") /\ Have = 0 /\ ai_configured
    /\ call.num_questions = MaxN /\ ret.st = "ok"

\* the rows of the called user and topic, oldest first, and the newest five
TopicHistory == SelectSeq(progress, LAMBDA row : row.user_id = call.user_id /\ row.topic = call.topic)
LastFive ==
    SubSeq(TopicHistory, IF Len(TopicHistory) > 5 THEN Len(TopicHistory) - 4 ELSE 1, Len(TopicHistory))

RECURSIVE Total(_)
Total(rows) == IF rows = <<>> THEN 0 ELSE Head(rows).score + Total(Tail(rows))

\* C12: get_adaptive_difficulty gives medium for a user without rows for the
\* topic; otherwise hard, medium or easy as the mean score of the five newest
\* rows of that user and topic is at least 80, at least 60, or below 60;
\* older rows and rows of other users or topics have no part in it
C12_AdaptiveDifficulty ==
    Done("get_adaptive_difficulty") =>
        ret.v.s = IF TopicHistory = <<>> THEN "medium"
                  ELSE IF Total(LastFive) >= 80 * Len(LastFive) THEN "hard"
                  ELSE IF Total(LastFive) >= 60 * Len(LastFive) THEN "medium"
                  ELSE "easy"

\* six rows of the topic, the oldest of which would turn hard into medium
C12_Witness ==
    /\ Done("get_adaptive_difficulty")
    /\ Len(TopicHistory) > 5
    /\ Total(LastFive) >= 80 * 5
    /\ Total(TopicHistory) < 80 * Len(TopicHistory)
    /\ ret.v.s = "hard"

\* an /export request of a logged-in user with a JSON body
ExportRequest ==
    resp.endpoint = "/export" /\ resp.method = "POST" /\ resp.is_json /\ LoggedIn

\* C13: an authenticated /export request whose format is none of the
\* supported selectors is answered with a 4xx status, and no file is sent
C13_UnsupportedFormat ==
    (ExportRequest /\ resp.format \notin {"pdf", "ppt", "docx"}) =>
        /\ resp.status \in 400..499
        /\ resp.file = NoFile

\* the first field present among content, script, description
FirstPresent(content) ==
    IF "content" \in DOMAIN content THEN content.content
    ELSE IF "script" \in DOMAIN content THEN content.script
    ELSE content.description

HasBody(content) ==
    /\ content.py = "dict"
    /\ Keys(content) \cap {"content", "script", "description"} # {}
    /\ FirstPresent(content).py = "str"

\* C14: in each of the three formats the writer takes the title from the
\* dictionary's topic and the body from the first field present among
\* content, script, description; a dictionary with a description only is
\* written with the description as its body
C14_TitleAndBody ==
    (Done("export") /\ call.format_type \in {"pdf", "ppt", "docx"}
        /\ HasBody(call.content) /\ "topic" \in DOMAIN call.content) =>
        /\ ret.st = "ok"
        /\ ret.v.title = call.content.topic
        /\ ret.v.text = FirstPresent(call.content)

\* an /export request that names a stored row
ExportById == ExportRequest /\ resp.content_id \in DOMAIN contents

\* C15: exporting a row that /generate persisted, by its id and in any of
\* the three formats, gives a document whose title is the row's topic and
\* whose body is a text
C15_RoundTrip ==
    (ExportById /\ resp.format \in {"pdf", "ppt", "docx"}) =>
        /\ resp.status = 200
        /\ resp.file.title = contents[resp.content_id].topic
        /\ resp.file.text.py = "str"

\* a generation request that was answered with its result
GenerationDone ==
    /\ resp.endpoint \in {"/generate", "/quiz", "/generate-quiz-questions", "/flashcards",
                          "/doubt-solve", "/lesson-plan", "/homework"}
    /\ resp.method = "POST"
    /\ resp.status = 200

\* C16: every generation request that succeeds, on any of the seven
\* generation endpoints, leaves exactly one new GeneratedContent row, owned
\* by the requesting user and holding the serialized result
C16_RowPerGeneration ==
    GenerationDone =>
        /\ resp.wrote = 1
        /\ Len(contents) >= 1
        /\ resp.content_id = Len(contents)
        /\ contents[Len(contents)].user_id = session.user_id
        /\ JsonLoads(contents[Len(contents)].content).st = "ok"

\* C17: no request handler modifies or deletes a GeneratedContent row: over
\* every step but create_tables the rows there were are still there, each
\* with its id, owner, content type, topic, payload and metadata, and
\* /export leaves the table as it is
C17_RowsKept ==
    [][resp' # NoResp =>
        /\ Len(contents') >= Len(contents)
        /\ SubSeq(contents', 1, Len(contents)) = contents
        /\ resp'.endpoint = "/export" => contents' = contents]_vars

\* a second row was stored and the first was exported afterwards
C17_Witness ==
    /\ Len(contents) = 2
    /\ resp.endpoint = "/export" /\ resp.status = 200 /\ resp.content_id = 1


\* the update_progress calls of a user that returned, by their place in the log
UpdatesBy(user_id) == {i \in DOMAIN log : log[i].user_id = user_id}

NextAccounts ==
    \/ CreateTables
    \/ Login
    \/ Register
    \/ Logout

SpecAccounts == InitApp /\ [][NextAccounts]_vars

Roles == {"student", "teacher", "admin"}

\* the role values that name one of the three roles in some case, with or
\* without blanks around
NamesARole == Roles \cup {" Teacher ", "ADMIN"}

\* the role values of the registration forms that carry a user's name and address
SubmittedRoles(user) ==
    {form.role : form \in {f \in RegisterForms :
                              Strip(f.username) = user.username /\ Strip(f.email) = user.email}}

MaxRequests == 2
Requests == 1..MaxRequests

ConcurrentForms ==
    {[username |-> f[1], email |-> f[2], password |-> f[3], role |-> ""] :
        f \in {<<" amy ", "amy@x", "secret1">>, <<"amy", "bob@x", "secret1">>,
               <<"bob", "amy@x", "secret1">>, <<"bob", "bob@x", "secret1">>,
               <<"admin", "amy@x", "secret1">>, <<"bob", "bob@x", "short">>}}

\* no constraint on the table
NoConstraint(username, email) == FALSE

\* unique=True of User.username and User.email: the INSERT of a row whose
\* username or email a committed row has fails with IntegrityError
UniqueViolation(username, email) ==
    \E i \in DOMAIN users : users[i].username = username \/ users[i].email = email

\* the answer of request r: its status, the error it names and the cookie it sets
RegisterAnswer(r, status, error, cookie) ==
    /\ pc' = [pc EXCEPT ![r] = "done"]
    /\ ret' = [ret EXCEPT ![r] = [status |-> status, error |-> error, session |-> cookie]]

RegisterStays == UNCHANGED <<api_available, ai_configured, call, log, session, contents, progress, resp>>

\* register up to the validation of the form
RegisterValidate(r) ==
    LET form == call[r] IN
    /\ pc[r] = "validate"
    /\ IF Strip(form.username) = "" \/ Strip(form.email) = "" \/ form.password = ""
          \/ PasswordLen(form.password) < 6
       THEN RegisterAnswer(r, 400, "invalid", NoSession)
       ELSE pc' = [pc EXCEPT ![r] = "check_username"] /\ ret' = ret
    /\ UNCHANGED users
    /\ RegisterStays

\* User.query.filter_by(username=username).first()
RegisterCheckUsername(r) ==
    /\ pc[r] = "check_username"
    /\ IF \E i \in DOMAIN users : users[i].username = Strip(call[r].username)
       THEN RegisterAnswer(r, 400, "Username already exists", NoSession)
       ELSE pc' = [pc EXCEPT ![r] = "check_email"] /\ ret' = ret
    /\ UNCHANGED users
    /\ RegisterStays

\* User.query.filter_by(email=email).first()
RegisterCheckEmail(r) ==
    /\ pc[r] = "check_email"
    /\ IF \E i \in DOMAIN users : users[i].email = Strip(call[r].email)
       THEN RegisterAnswer(r, 400, "Email already exists", NoSession)
       ELSE pc' = [pc EXCEPT ![r] = "insert"] /\ ret' = ret
    /\ UNCHANGED users
    /\ RegisterStays

\* db.session.add(user), db.session.commit() and the answer; a commit that
\* raises is rolled back. `commit_ok` is false when the database fails.
RegisterInsert(r) ==
    \E commit_ok \in BOOLEAN :
        LET username == Strip(call[r].username)
            email == Strip(call[r].email)
        IN  /\ pc[r] = "insert"
            /\ IF UniqueViolation(username, email) \/ ~commit_ok
               THEN /\ RegisterAnswer(r, 500, IF UniqueViolation(username, email) THEN "IntegrityError"
                                               ELSE "OperationalError", NoSession)
                    /\ UNCHANGED users
               ELSE /\ users' = Append(users, [username |-> username, email |-> email,
                                               password_hash |-> Hash(call[r].password),
                                               role |-> StoredRole(call[r])])
                    /\ RegisterAnswer(r, 200, "", [py |-> "dict", user_id |-> Len(users) + 1,
                                               username |-> username, role |-> StoredRole(call[r])])
            /\ RegisterStays

InitRegister ==
    /\ api_available = FALSE
    /\ ai_configured = TRUE
    /\ log = <<>>
    /\ AppAtRest
    /\ call \in [Requests -> ConcurrentForms]
    /\ pc = [r \in Requests |-> "validate"]
    /\ ret = [r \in Requests |-> NoRet]

NextRegister ==
    \E r \in Requests :
        \/ RegisterValidate(r)
        \/ RegisterCheckUsername(r)
        \/ RegisterCheckEmail(r)
        \/ RegisterInsert(r)

SpecRegister == InitRegister /\ [][NextRegister]_vars

\* the requests that have created a user
Registered == {r \in Requests : pc[r] = "done" /\ ret[r].status = 200}

GenerateDone ==
    /\ resp.endpoint = "/generate"
    /\ resp.status = 200
    /\ resp.content_id \in DOMAIN contents

\* C21: a /generate request takes exactly one of three generation paths and
\* then persists the result: the quiz resolver, which begins with its one
\* request to the trivia service, for the content type quiz; the
\* study-material resolver, which fetches from the encyclopedia, when
\* use_internet is set; and one direct Content Generator call with no external
\* fetch otherwise.
C21_OnePath ==
    GenerateDone =>
        LET row == contents[resp.content_id]
            use_internet == row.content_metadata.body.use_internet
        IN  /\ resp.wrote = 1
            /\ Len(resp.gen) <= 1
            /\ IF row.content_type = "quiz" THEN resp.ext = 1
               ELSE IF use_internet THEN resp.ext >= 1 /\ Len(resp.gen) = 1
               ELSE resp.ext = 0 /\ resp.gen = <<"generate">>


\* a request of a writing handler whose commit raised
WriteFailed ==
    /\ resp.endpoint \in {"/register", "/generate", "/progress"}
    /\ resp.method = "POST"
    /\ resp.error = "database"

\* C22: when the commit of a writing handler (register, /generate, POST
\* /progress) fails, the answer is a 500 and the request leaves no row.
C22_FailedWrite == WriteFailed => resp.status = 500 /\ resp.wrote = 0


\* ------------------------------------------------- the fallback chains
\* one call of the Quiz Source Resolver, of the Study Material Resolver or of
\* the Content Generator, with the log of the requests and calls it made
InitChains == InitQuiz \/ InitStudy \/ InitGen

NextChains ==
    \/ NextQuiz
    \/ NextStudy
    \/ NextGen

SpecChains == InitChains /\ [][NextChains]_vars

\* the places of the log where an event of a kind stands
At(kind) == {i \in DOMAIN log : log[i].ev = kind}

GeneratorOps ==
    {"generate", "generate_quiz", "generate_flashcards", "solve_doubt",
     "generate_lesson_plan", "generate_homework"}

\* the queries compile_study_material makes, and in their order: a prefix of
\* the topic, 'topic explanation', 'topic definition', 'what is topic'
QueriesInOrder ==
    LET stated == <<call.topic, call.topic \o <<"explanation">>, call.topic \o <<"definition">>,
                    <<"what", "is">> \o call.topic>>
    IN  /\ At("wikipedia") = 1..Cardinality(At("wikipedia"))
        /\ Cardinality(At("wikipedia")) \in 1..4
        /\ \A i \in At("wikipedia") : log[i].query = stated[i]

\* the parts of C23 that do not count the model calls of compile_study_material
OnceInOrder ==
    /\ Done("fetch_quiz") =>
          /\ At("opentdb") = {1}
          /\ Cardinality(At("generate_quiz")) <= 1
          /\ Cardinality(At("call_ai")) = Cardinality(At("generate_quiz"))
          /\ \A i \in At("generate_quiz") \cup At("call_ai") : i > 1
    /\ Done("compile_study_material") =>
          /\ QueriesInOrder
          /\ \A i \in At("wikipedia"), j \in At("call_ai") : i < j
    /\ (pc = "done" /\ call.op \in GeneratorOps) =>
          /\ Cardinality(At("call_ai")) = 1
          /\ Len(log) = 1

Exceeds(result) == Truthy(result) /\ TextLen(result.extract) > 100

\* whether a query result is nothing or has an extract under 100 characters
Poor(result) == ~Truthy(result) \/ TextLen(result.extract) < 100

\* C24: fetch_educational_content queries the alternatives 'topic
\* explanation', 'topic definition', 'what is topic', in that order, exactly
\* when the primary query returned nothing or an extract under 100
\* characters; it keeps the first alternative whose extract exceeds 100
\* characters and queries no later one; the sources are the primary result,
\* if there is one, and the kept alternative, so they are at most two, and
\* total_sources is their number.
C24_Alternatives ==
    Done("fetch_educational_content") =>
        LET n == Len(Queried)
            sources == ret.v.sources
            primary == Queried[1].result
            stated == <<call.topic \o <<"explanation">>, call.topic \o <<"definition">>,
                        <<"what", "is">> \o call.topic>>
        IN  /\ n = Len(log) /\ n \in 1..4
            /\ Queried[1].query = call.topic
            /\ (n > 1) <=> Poor(primary)
            /\ \A i \in 2..n : Queried[i].query = stated[i - 1]
            /\ \A i \in 2..(n - 1) : ~Exceeds(Queried[i].result)
            /\ (n \in 2..3) => Exceeds(Queried[n].result)
            /\ sources = (IF Truthy(primary) THEN <<primary>> ELSE <<>>)
                         \o (IF n > 1 /\ Exceeds(Queried[n].result) THEN <<Queried[n].result>> ELSE <<>>)
            /\ Len(sources) <= 2
            /\ ret.v.total_sources = Len(sources)

\* the primary extract was short, the first alternative had exactly 100
\* characters and was passed over, the second was kept: two sources
C24_Witness ==
    /\ Done("fetch_educational_content")
    /\ Len(Queried) = 3
    /\ Truthy(Queried[1].result)
    /\ Truthy(Queried[2].result) /\ TextLen(Queried[2].result.extract) = 100
    /\ Len(ret.v.sources) = 2
    /\ ret.v.total_sources = 2


\* ------------------------------------------------- the generator in mock mode
\* AIGenerator.__init__ without GEMINI_API_KEY: no model, api_available False
InitMock ==
    /\ InitGen
    /\ ~api_available

\* the caller takes the result and makes its next call on the same generator
NextOperation ==
    /\ pc = "done"
    /\ pc' = "idle"
    /\ call' \in GenCalls
    /\ UNCHANGED <<api_available, ai_configured, ret, log>>
    /\ UNCHANGED appVars

NextMock ==
    \/ NextGen
    \/ NextOperation

SpecMock == InitMock /\ [][NextMock]_vars

\* the three responses of _get_mock_response
MockTexts ==
    {ReplyText("none", [py |-> "dict", questions |-> PyList(<<MockQuestion>>)]),
     ReplyText("none", [py |-> "dict", cards |-> PyList(<<MockCard>>)]),
     ReplyText("none", NotJson)}

\* C25: a generator constructed without an API key stays in mock mode over
\* any sequence of operations: api_available is false in every state, no
\* _call_ai reaches the upstream model, and every _call_ai returns one of the
\* mock responses, which is the text the operation's result is built from.
C25_MockMode ==
    /\ ~api_available
    /\ \A i \in DOMAIN log :
          /\ log[i].ev = "call_ai"
          /\ ~log[i].upstream
          /\ log[i].text \in MockTexts
    /\ pc = "done" => Len(log) = 1
    /\ Done("solve_doubt") => ret.st = "ok" /\ ret.v.answer = log[1].text
    /\ Done("generate_homework") => ret.st = "ok" /\ ret.v.homework = log[1].text

\* a generator in mock mode that has answered solve_doubt from the mock
\* response, without a call to the model, and is called again
C25_Witness ==
    /\ ~api_available
    /\ pc = "idle"
    /\ call.op = "generate_quiz"
    /\ ret.st = "ok"
    /\ "answer" \in DOMAIN ret.v
    /\ Len(log) = 1
    /\ ~log[1].upstream
    /\ ret.v.answer = ReplyText("none", NotJson)


\* the keywords of the table that have a category id, in table order, and
\* the ids
Keywords ==
    <<"science", "mathematics", "computers", "history", "geography", "sports", "animals",
      "mythology", "politics", "art", "celebrities", "vehicles", "general">>
KeywordIds == <<17, 19, 18, 23, 22, 21, 27, 20, 24, 25, 26, 28, 9>>

\* the keywords with an id that occur in the lower-cased topic
Occurring == {k \in DOMAIN Keywords : Contains(call.topic, Keywords[k])}

JsonCount(body) == [body EXCEPT !.num_questions = PyInt(@)]
IntCount(body) == [body EXCEPT !.num_questions = @.n]

ViewCalls ==
    {[op |-> "/quiz", body |-> JsonCount(b)] :
        b \in QuizBodies \cup {[topic |-> <<"algebra">>, num_questions |-> n, difficulty |-> "medium"] :
                                 n \in {0, 51}}}
    \cup {[op |-> "/generate-quiz-questions", body |-> b] : b \in QuizQuestionBodies}
    \cup {[op |-> "/generate", body |-> JsonCount(b)] :
            b \in GenerateBodies
                  \cup {[GenerateBody(<<"algebra">>, "quiz", FALSE) EXCEPT !.num_questions = n] : n \in {0, 51}}}
    \cup {[op |-> e, body |-> [topic |-> t]] :
            e \in {"/flashcards", "/doubt-solve", "/lesson-plan", "/homework"}, t \in AppTopics}
    \cup {[op |-> "/progress", data |-> b] : b \in ProgressBodies}

\* what the view of the request can do, over the answers of the services
ViewEffects(request) ==
    LET body == IF request.op = "/progress" THEN request.data ELSE request.body IN
    CASE request.op = "/quiz" ->
            UNION {{PostQuizView(IntCount(body), outcome, perms, ai) :
                      perms \in ShufflesFor(outcome), ai \in AppOutcomes} : outcome \in AppOpentdb}
      [] request.op = "/generate-quiz-questions" ->
            {QuizQuestionsView(body, ai) : ai \in AppOutcomes}
      [] request.op = "/generate" ->
            {GenerateContentView(IntCount(body), ai, run, commit_ok) :
                run \in (IF body.use_internet /\ body.content_type # "quiz"
                         THEN AppRuns(body.topic) ELSE {<<PyNone>>}),
                ai \in AppOutcomes, commit_ok \in BOOLEAN}
      [] request.op = "/flashcards" ->
            {TopicView(body.topic, GenerateFlashcards(body.topic, 20, ai), "generate_flashcards") :
                ai \in AppOutcomes}
      [] request.op = "/doubt-solve" ->
            {TopicView(body.topic, SolveDoubt(body.topic, <<>>, ai), "solve_doubt") : ai \in AppOutcomes}
      [] request.op = "/lesson-plan" ->
            {TopicView(body.topic, GenerateLessonPlan(body.topic, 60, "middle", ai), "generate_lesson_plan") :
                ai \in AppOutcomes}
      [] request.op = "/homework" ->
            {TopicView(body.topic, GenerateHomework(body.topic, "medium", ai), "generate_homework") :
                ai \in AppOutcomes}
      [] request.op = "/progress" ->
            {ProgressView(body, commit_ok) : commit_ok \in BOOLEAN}

InitViews ==
    /\ api_available \in BOOLEAN
    /\ ai_configured = TRUE
    /\ pc = "idle"
    /\ call \in ViewCalls
    /\ ret = NoRet
    /\ log = <<>>
    /\ users = <<DefaultAdmin>>
    /\ session = [py |-> "dict", user_id |-> 1, username |-> "admin", role |-> "admin"]
    /\ contents = <<>>
    /\ progress = <<>>
    /\ resp = NoResp

DoView ==
    /\ pc = "idle"
    /\ \E a \in ViewEffects(call) :
        /\ ret' = a
        /\ contents' = Committed(contents, a.rows)
        /\ progress' = Committed(progress, a.prog)
    /\ pc' = "done"
    /\ UNCHANGED <<api_available, ai_configured, call, log, users, session, resp>>

NextViews == DoView

SpecViews == InitViews /\ [][NextViews]_vars

\* the number of questions a quiz request asks for: its integer, or 10
AskedQuestions == IF call.body.num_questions.py = "int" THEN call.body.num_questions.n ELSE 10

\* a quiz-generation request that got past the check of its topic
QuizRequest ==
    /\ pc = "done"
    /\ \/ call.op \in {"/quiz", "/generate-quiz-questions"}
       \/ call.op = "/generate" /\ call.body.content_type = "quiz"
    /\ StripText(call.body.topic) # <<>>

\* C27: a quiz-generation request whose num_questions is an integer outside
\* 1..50 is answered with a 4xx and a message before any generator or
\* external call is made.
C27_CountChecked ==
    (QuizRequest /\ (AskedQuestions < 1 \/ AskedQuestions > 50)) =>
        /\ ret.status \in 400..499
        /\ ret.error = "message"
        /\ ret.gen = <<>>
        /\ ret.ext = 0


\* the topic of the request (the question of /doubt-solve), and whether it
\* is missing or empty
TopicMissing ==
    IF call.op = "/progress" THEN ~Truthy(call.data.topic) ELSE call.body.topic = <<>>

\* C28: an authenticated request with a missing or empty topic (for
\* /doubt-solve, question) is answered with 400 and a message; it makes no
\* generator call and no external fetch, writes nothing, and leaves the store
\* as it was.
C28_TopicRequired ==
    (pc = "done" /\ TopicMissing) =>
        /\ ret.status = 400
        /\ ret.error = "message"
        /\ ret.gen = <<>>
        /\ ret.ext = 0
        /\ ret.rows = <<>> /\ ret.prog = <<>>
        /\ contents = <<>> /\ progress = <<>>


\* C29: over any sequence of register, login and logout requests an admin
\* comes into the user table only as the default admin of create_tables or
\* by a registration whose session role was admin when it was made; a
\* registration that asks for the role admin from any other session stores
\* the role student.
C29_AdminByAdmin ==
    [][/\ \A i \in DOMAIN users' :
             users'[i].role = "admin" =>
                 \/ i \in DOMAIN users /\ users[i] = users'[i]
                 \/ resp' = NoResp /\ users'[i] = DefaultAdmin
                 \/ resp'.endpoint = "/register" /\ SessionRole = "admin"
       /\ (resp'.endpoint = "/register" /\ resp'.wrote = 1 /\ SessionRole # "admin") =>
             /\ Len(users') = Len(users) + 1
             /\ users'[Len(users')].role # "admin"
             /\ "ADMIN" \in SubmittedRoles(users'[Len(users')]) =>
                    users'[Len(users')].role = "student"]_vars

\* a registration that asked for the role admin without an admin session has
\* stored a student, who is logged in by it
C29_Witness ==
    /\ resp.endpoint = "/register"
    /\ resp.wrote = 1
    /\ SubmittedRoles(users[Len(users)]) = {"ADMIN"}
    /\ users[Len(users)].role = "student"
    /\ session.role = "student"
    /\ session.user_id = Len(users)


\* ------------------------------------------------- the session
\* register, login and logout requests of one browser, and its requests to
\* pages that require a login, over one run of the server
NextSessions ==
    \/ Login
    \/ Register
    \/ Logout
    \/ MemberPage

SpecSessions == InitApp /\ [][NextSessions]_vars

\* the session holds the id, username and role of user i
HoldsUser(s, table, i) ==
    /\ i \in DOMAIN table
    /\ s = [py |-> "dict", user_id |-> i, username |-> table[i].username, role |-> table[i].role]

\* a login or a registration that succeeded, by its answer
LoggedInBy(r) ==
    \/ r.endpoint = "/login" /\ r.status = (IF r.is_json THEN 200 ELSE 302)
    \/ r.endpoint = "/register" /\ r.wrote = 1

====
